---------------------------- MODULE Spec2Model ----------------------------
(***************************************************************************)
(* Model of the LaTeX delimiter normalisation of obsidian-ocr.             *)
(*                                                                         *)
(* A text is a sequence of characters, each character a one-character      *)
(* string.  The regular expressions of the source are modelled by what     *)
(* they match on such sequences.  The texts used contain "\n" as the only  *)
(* line terminator, so "." matches every character of a split line.        *)
(***************************************************************************)
EXTENDS Integers, Sequences, FiniteSets, TLC

\* The text normaliser.
VARIABLES input, text, prev, conv, core, pc

\* The pixel filters.
VARIABLES data, width, height, original, before, call, ipc

\* One call of ocrFile.
VARIABLES fileExtension, preprocess, pagesPerBatch, pdfPages, imageDataUrls,
          preprocessed, results, batchStart, calls, answers, outcome, fpc

\* The output files of the vault and the scan that reads them back.
VARIABLES markdown, hash, vaultFiles, scanList, hashes, mpc

\* The plugin, its watchers and the vault they work on.
VARIABLES watchFolders, sources, outputs, knownHashes, initialized, watcher, watchers,
          runs, debounceTimers, indexers, succeeded, triggers

\* The debounce timers of the vault events, with the time they run in.
VARIABLES clock, timeouts, timerOf, nextTimer, lastEventAt, bursts, handleCalls

latexVars == <<input, text, prev, conv, core, pc>>

imageVars == <<data, width, height, original, before, call, ipc>>

fileVars ==
    <<fileExtension, preprocess, pagesPerBatch, pdfPages, imageDataUrls,
      preprocessed, results, batchStart, calls, answers, outcome, fpc>>

frontmatterVars == <<markdown, hash, vaultFiles, scanList, hashes, mpc>>

watcherVars ==
    <<watchFolders, sources, outputs, knownHashes, initialized, watcher, watchers,
      runs, debounceTimers, indexers, succeeded, triggers>>

debounceVars == <<clock, timeouts, timerOf, nextTimer, lastEventAt, bursts, handleCalls>>

vars == <<latexVars, imageVars, fileVars, frontmatterVars, watcherVars, debounceVars>>

-----------------------------------------------------------------------------
(* Bounds of the input space.                                              *)

MaxSegs == 4

MaxLines == 4

MaxInner == 3

-----------------------------------------------------------------------------
(* Characters and small strings.                                           *)

BS == "\\"

NL == "\n"

DD == <<"$", "$">>

D1 == <<"$">>

InlineOpen == <<BS, "(">>

InlineClose == <<BS, ")">>

DisplayOpen == <<BS, "[">>

DisplayClose == <<BS, "]">>

Whitespace == {" ", "\t", "\n", "\r"}

Lower == {"a", "b", "c", "d", "e", "f", "g", "h", "i", "j", "k", "l", "m",
          "n", "o", "p", "q", "r", "s", "t", "u", "v", "w", "x", "y", "z"}

Upper == {"A", "B", "C", "D", "E", "F", "G", "H", "I", "J", "K", "L", "M",
          "N", "O", "P", "Q", "R", "S", "T", "U", "V", "W", "X", "Y", "Z"}

Digits == {"0", "1", "2", "3", "4", "5", "6", "7", "8", "9"}

WordChars == Lower \cup Upper \cup Digits \cup {"_"}

-----------------------------------------------------------------------------
(* String primitives of the JavaScript runtime.                            *)

\* s.startsWith(p, i-1): p occurs in s at the 1-based position i.
StartsWithAt(s, i, p) ==
    /\ i >= 1
    /\ i + Len(p) - 1 <= Len(s)
    /\ \A k \in 1..Len(p) : s[i + k - 1] = p[k]

\* s.indexOf(p, from-1) + 1: the first position >= from where p occurs, 0 if none.
IndexOf(s, p, from) ==
    LET C == {i \in from..(Len(s) - Len(p) + 1) : StartsWithAt(s, i, p)}
    IN  IF C = {} THEN 0 ELSE CHOOSE i \in C : \A j \in C : i <= j

startsWith(s, p) == StartsWithAt(s, 1, p)

endsWith(s, p) == Len(s) >= Len(p) /\ StartsWithAt(s, Len(s) - Len(p) + 1, p)

\* s.split("\n"): the lines of s; the empty text has the one line "".
RECURSIVE split(_)
split(s) ==
    LET i == IndexOf(s, <<NL>>, 1)
    IN  IF i = 0 THEN <<s>>
        ELSE <<SubSeq(s, 1, i - 1)>> \o split(SubSeq(s, i + 1, Len(s)))

\* lines.join("\n")
RECURSIVE join(_)
join(lines) ==
    IF Len(lines) = 0 THEN <<>>
    ELSE IF Len(lines) = 1 THEN lines[1]
    ELSE lines[1] \o <<NL>> \o join(Tail(lines))

\* s.trimEnd()
RECURSIVE trimEnd(_)
trimEnd(s) ==
    IF Len(s) > 0 /\ s[Len(s)] \in Whitespace
    THEN trimEnd(SubSeq(s, 1, Len(s) - 1))
    ELSE s

\* s.trimStart()
RECURSIVE trimStart(_)
trimStart(s) ==
    IF Len(s) > 0 /\ s[1] \in Whitespace THEN trimStart(Tail(s)) ELSE s

\* s.trim()
trim(s) == trimStart(trimEnd(s))

-----------------------------------------------------------------------------
(* Delimiter conversion.                                                   *)

\* text.replace(/open([\s\S]*?)close/g, l + "$1" + r): the leftmost open
\* token that has a close token after it is paired with the nearest such
\* close token; the scan resumes after that close token.
RECURSIVE ReplacePairs(_, _, _, _, _)
ReplacePairs(s, open, close, l, r) ==
    LET i == IndexOf(s, open, 1)
        j == IF i = 0 THEN 0 ELSE IndexOf(s, close, i + Len(open))
    IN  IF i = 0 \/ j = 0 THEN s
        ELSE SubSeq(s, 1, i - 1) \o l \o SubSeq(s, i + Len(open), j - 1) \o r
             \o ReplacePairs(SubSeq(s, j + Len(close), Len(s)), open, close, l, r)

\* A display conversion whose closing token may also be the inline one.
ConvertDisplaySloppy(s) ==
    LET i == IndexOf(s, DisplayOpen, 1)
        a == IF i = 0 THEN 0 ELSE IndexOf(s, DisplayClose, i + 2)
        b == IF i = 0 THEN 0 ELSE IndexOf(s, InlineClose, i + 2)
        j == IF a = 0 THEN b ELSE IF b = 0 THEN a ELSE IF a < b THEN a ELSE b
    IN  IF i = 0 \/ j = 0 THEN s
        ELSE SubSeq(s, 1, i - 1) \o DD \o SubSeq(s, i + 2, j - 1) \o DD
             \o ReplacePairs(SubSeq(s, j + 2, Len(s)), DisplayOpen, DisplayClose, DD, DD)

\* text.replace(/\\\[([\s\S]*?)\\\]/g, "$$$$$1$$$$")
ConvertDisplay(s) == ReplacePairs(s, DisplayOpen, DisplayClose, DD, DD)

\* An inline conversion that takes the longest span instead of the shortest.
ConvertInlineGreedy(s) ==
    LET i == IndexOf(s, InlineOpen, 1)
        C == {j \in 1..Len(s) : j >= i + 2 /\ StartsWithAt(s, j, InlineClose)}
        j == IF i = 0 \/ C = {} THEN 0 ELSE CHOOSE x \in C : \A y \in C : y <= x
    IN  IF i = 0 \/ j = 0 THEN s
        ELSE SubSeq(s, 1, i - 1) \o D1 \o SubSeq(s, i + 2, j - 1) \o D1
             \o SubSeq(s, j + 2, Len(s))

\* An inline conversion that rewrites every token, paired or not.
RECURSIVE ConvertInlineEveryToken(_)
ConvertInlineEveryToken(s) ==
    IF Len(s) = 0 THEN s
    ELSE IF StartsWithAt(s, 1, InlineOpen) \/ StartsWithAt(s, 1, InlineClose)
    THEN D1 \o ConvertInlineEveryToken(SubSeq(s, 3, Len(s)))
    ELSE <<s[1]>> \o ConvertInlineEveryToken(Tail(s))

\* text.replace(/\\\(([\s\S]*?)\\\)/g, "$$$1$$")
ConvertInline(s) == ReplacePairs(s, InlineOpen, InlineClose, D1, D1)

\* normalizeLatexDelimiters of core/postprocessing.ts: inline, then display.
postprocessingNormalizeLatexDelimiters(s) == ConvertDisplay(ConvertInline(s))

-----------------------------------------------------------------------------
(* Display-block merger.                                                   *)

\* "." of the regular expressions: any character but a line terminator.
DotChar(c) == c \notin {"\n", "\r"}

\* A match that refuses a content beginning with a dollar.
SingleLineBlockNoDollar(line) ==
    /\ Len(line) >= 5
    /\ startsWith(line, DD)
    /\ line[3] # "$"
    /\ endsWith(line, DD)

\* lines[i].match(/^\$\$(.+)\$\$$/) succeeds.
SingleLineBlock(line) ==
    /\ Len(line) >= 5
    /\ startsWith(line, DD)
    /\ endsWith(line, DD)
    /\ \A k \in 3..(Len(line) - 2) : DotChar(line[k])

\* m[1] of that match.
BlockContent(line) == SubSeq(line, 3, Len(line) - 2)

\* A run entry that keeps the blanks around the content.
RunEntryUntrimmed(line) == BlockContent(line)

\* m[1].trim(): the entry a matching line contributes to its run.
RunEntry(line) == trim(BlockContent(line))

\* The inner while loop: the first index j >= from whose line does not match.
RECURSIVE RunEnd(_, _)
RunEnd(lines, j) ==
    IF j <= Len(lines) /\ SingleLineBlock(lines[j]) THEN RunEnd(lines, j + 1) ELSE j

\* The outer while loop from index i: the lines pushed to result.
RECURSIVE MergeFrom(_, _)
MergeFrom(lines, i) ==
    IF i > Len(lines) THEN <<>>
    ELSE IF SingleLineBlock(lines[i])
    THEN LET j == RunEnd(lines, i + 1)
             run == [k \in 1..(j - i) |-> RunEntry(lines[i + k - 1])]
         IN  (IF Len(run) = 1 THEN <<lines[i]>> ELSE <<DD>> \o run \o <<DD>>)
             \o MergeFrom(lines, j)
    ELSE <<lines[i]>> \o MergeFrom(lines, i + 1)

mergeConsecutiveDisplayBlocks(s) == join(MergeFrom(split(s), 1))

-----------------------------------------------------------------------------
(* Display-block line-breaker.                                             *)

TextOpen == <<BS, "t", "e", "x", "t", "{">>

BeginOpen == <<BS, "b", "e", "g", "i", "n", "{">>

GatherBegin == <<BS, "b", "e", "g", "i", "n", "{", "g", "a", "t", "h", "e", "r", "}">>

GatherEnd == <<BS, "e", "n", "d", "{", "g", "a", "t", "h", "e", "r", "}">>

\* line.replace(/\\text\{[^}]*\}/g, "")
RECURSIVE StripTextGroups(_)
StripTextGroups(s) ==
    LET i == IndexOf(s, TextOpen, 1)
        j == IF i = 0 THEN 0 ELSE IndexOf(s, <<"}">>, i + Len(TextOpen))
    IN  IF i = 0 \/ j = 0 THEN s
        ELSE SubSeq(s, 1, i - 1) \o StripTextGroups(SubSeq(s, j + 1, Len(s)))

\* The length of the run of lower-case letters of s that starts at p.
RECURSIVE LowerRun(_, _)
LowerRun(s, p) ==
    IF p <= Len(s) /\ s[p] \in Lower THEN 1 + LowerRun(s, p + 1) ELSE 0

\* /(?<!\\)\b[a-z]{3,}\b/ matches at p, and then matches LowerRun(s, p) letters.
WordAt(s, p) ==
    /\ p <= Len(s)
    /\ s[p] \in Lower
    /\ p > 1 => (s[p - 1] # BS /\ s[p - 1] \notin WordChars)
    /\ LowerRun(s, p) >= 3
    /\ LET q == p + LowerRun(s, p) IN q <= Len(s) => s[q] \notin WordChars

\* stripped.match(/(?<!\\)\b[a-z]{3,}\b/g): the number of matches from p on.
RECURSIVE CountWords(_, _)
CountWords(s, p) ==
    IF p > Len(s) THEN 0
    ELSE IF WordAt(s, p) THEN 1 + CountWords(s, p + LowerRun(s, p))
    ELSE CountWords(s, p + 1)

\* A prose test that asks for three words.
looksLikeProseThree(line) == CountWords(StripTextGroups(line), 1) >= 3

looksLikeProse(line) == CountWords(StripTextGroups(line), 1) >= 2

\* inner.split("\n").map((l) => l.trimEnd())
TrimmedLines(inner) == LET ls == split(inner) IN [k \in 1..Len(ls) |-> trimEnd(ls[k])]

\* The subsequence of the non-empty lines, in order (nonEmptyIndices).
RECURSIVE NonEmpty(_)
NonEmpty(lines) ==
    IF Len(lines) = 0 THEN <<>>
    ELSE IF Len(lines[1]) > 0 THEN <<lines[1]>> \o NonEmpty(Tail(lines))
    ELSE NonEmpty(Tail(lines))

\* A content line that always gets a terminator appended.
GatherLineAlways(line) == <<"&", " ">> \o line \o <<" ", BS, BS>>

\* `& ${withSlash}` of one content line.
GatherLine(line) ==
    <<"&", " ">> \o (IF endsWith(line, <<BS, BS>>) THEN line ELSE line \o <<" ", BS, BS>>)

addDisplayLinebreaks(inner) ==
    LET content == NonEmpty(TrimmedLines(inner))
        same == DD \o <<NL>> \o inner \o <<NL>> \o DD
    IN  IF Len(content) <= 1 THEN same
        ELSE IF startsWith(content[1], BeginOpen) THEN same
        ELSE IF \E k \in 1..Len(content) : looksLikeProse(content[k]) THEN same
        ELSE DD \o <<NL>> \o GatherBegin \o <<NL>>
             \o join([k \in 1..Len(content) |-> GatherLine(content[k])])
             \o <<NL>> \o GatherEnd \o <<NL>> \o DD

\* text.replace(/\$\$\n([\s\S]*?)\n\$\$/g, addDisplayLinebreaks)
RECURSIVE ReplaceBlocks(_)
ReplaceBlocks(s) ==
    LET i == IndexOf(s, DD \o <<NL>>, 1)
        j == IF i = 0 THEN 0 ELSE IndexOf(s, <<NL>> \o DD, i + 3)
    IN  IF i = 0 \/ j = 0 THEN s
        ELSE SubSeq(s, 1, i - 1) \o addDisplayLinebreaks(SubSeq(s, i + 3, j - 1))
             \o ReplaceBlocks(SubSeq(s, j + 3, Len(s)))

-----------------------------------------------------------------------------
(* Inline-double-dollar fixer.                                             *)

\* /^\s*\$\$\s*$/.test(line)
BareDelimiter(line) == trim(line) = DD

\* /^\s*\$\$[^$].*\$\$\s*$/.test(line)
StandaloneDisplay(line) ==
    LET t == trim(line)
    IN  /\ Len(t) >= 5
        /\ startsWith(t, DD)
        /\ t[3] # "$"
        /\ endsWith(t, DD)
        /\ \A k \in 4..(Len(t) - 2) : DotChar(t[k])

\* line.replace(/\$\$(.+?)\$\$/g, (_, content) => `$${content}$`)
RECURSIVE ReplaceDoubleDollar(_)
ReplaceDoubleDollar(line) ==
    LET i == IndexOf(line, DD, 1)
        j == IF i = 0 THEN 0 ELSE IndexOf(line, DD, i + 3)
    IN  IF i = 0 \/ j = 0 THEN line
        ELSE SubSeq(line, 1, i - 1) \o D1 \o SubSeq(line, i + 2, j - 1) \o D1
             \o ReplaceDoubleDollar(SubSeq(line, j + 2, Len(line)))

\* The callback of the map over the lines.
FixLine(line) ==
    IF BareDelimiter(line) THEN line
    ELSE IF StandaloneDisplay(line) THEN line
    ELSE ReplaceDoubleDollar(line)

fixInlineDoubleDollar(s) ==
    LET ls == split(s) IN join([k \in 1..Len(ls) |-> FixLine(ls[k])])

-----------------------------------------------------------------------------
(* The four-stage pipeline of obsidian-plugin/src/ocr.ts.                  *)

normalizeLatexDelimiters(s) ==
    fixInlineDoubleDollar(
        ReplaceBlocks(mergeConsecutiveDisplayBlocks(ConvertInline(ConvertDisplay(s)))))

-----------------------------------------------------------------------------
(* The texts handed to the normalisers.                                    *)

\* The sequences of at most n elements of S.
SeqsUpTo(S, n) == UNION {[1..k -> S] : k \in 0..n}

\* The concatenation of a sequence of texts.
RECURSIVE Concat(_)
Concat(q) == IF Len(q) = 0 THEN <<>> ELSE q[1] \o Concat(Tail(q))

\* Bracket-style delimiters with a letter, a newline, a dollar and a backslash.
BracketSegs ==
    {InlineOpen, InlineClose, DisplayOpen, DisplayClose, <<"A">>, <<NL>>, D1, <<BS>>}

\* Dollar-style math and text on one line.
DollarSegs ==
    {<<"$", "$", "A", "$", "$">>, <<"$", "A", "$">>, <<"A">>, <<" ">>, DD, D1}

\* Lines of a document with single-line display blocks.
DocLines ==
    {<<>>, <<"A">>, DD,
     <<"$", "$", "A", "$", "$">>,
     <<"$", "$", " ", "A", " ", "$", "$">>,
     <<"$", "$", "$", "A", "$", "$">>}

\* Lines of the inside of a multi-line display block.
InnerLines ==
    {<<" ">>, <<"A">>,
     <<"A", BS, BS, " ">>,
     <<"a", "b", "c", " ", "a", "b", "c">>,
     <<"a", "b", "c", " ", "a", "b", "c", BS, "(", "A", BS, ")">>,
     <<BS, "a", "b", "c", " ", "a", "b", "c">>,
     TextOpen \o <<"a", "b", "c", " ", "a", "b", "c", "}">>,
     BeginOpen \o <<"x", "}">>,
     <<" ">> \o BeginOpen \o <<"x", "}">>}

\* What precedes a multi-line display block in its document.
Prefixes ==
    {<<>>, <<<<"A">>>>, <<<<"$", "$", "A", "$", "$">>>>,
     <<<<"$", "$", "A", "$", "$">>, <<>>>>}

BlockDoc(prefix, inner) == join(prefix \o <<DD>> \o inner \o <<DD>>)

Inputs ==
    {Concat(q) : q \in SeqsUpTo(BracketSegs, MaxSegs)}
    \cup {Concat(q) : q \in SeqsUpTo(DollarSegs, MaxSegs)}
    \cup {join(q) : q \in SeqsUpTo(DocLines, MaxLines)}
    \cup {BlockDoc(p, q) : p \in Prefixes, q \in SeqsUpTo(InnerLines, MaxInner)}

-----------------------------------------------------------------------------
(* Pixel filters of providers/openai.ts.  A buffer is the sequence of the  *)
(* bytes of a Uint8ClampedArray; data[i] of the source, i counted from 0,  *)
(* is At(data, i).  The buffers are those of an ImageData: width * height  *)
(* pixels of four bytes.  A cutoff and a Gaussian sigma are counted in     *)
(* halves (cutoff 1 is 0.5 %, radius 3 is sigma 1.5), so that the          *)
(* arithmetic of the source, done in doubles, is done exactly in integers. *)

At(d, i) == d[i + 1]

\* Math.max(lo, Math.min(hi, x))
Clamp(x, lo, hi) == IF x < lo THEN lo ELSE IF x > hi THEN hi ELSE x

\* Math.round(num / den) for den > 0: the nearest integer, a half going up.
RoundHalfUp(num, den) == (2 * num + den) \div (2 * den)

\* floor(log2(num / den)) for num >= den > 0.
RECURSIVE Log2Floor(_, _)
Log2Floor(num, den) == IF num >= 2 * den THEN 1 + Log2Floor(num, 2 * den) ELSE 0

\* 2^n
RECURSIVE Pow2(_)
Pow2(n) == IF n = 0 THEN 1 ELSE 2 * Pow2(n - 1)

\* 2^n modulo d
RECURSIVE Pow2Mod(_, _)
Pow2Mod(n, d) == IF n = 0 THEN 1 % d ELSE (2 * Pow2Mod(n - 1, d)) % d

\* Math.round(k * scale) with scale = 255 / d, both operations in IEEE-754
\* doubles (53-bit significands), for 0 < d <= 255.  The quotient 255 / d
\* is rounded to 53 bits; r / d is the part of the last bit that is cut
\* off.  The product differs from the exact 255 * k / d by far less than
\* 1 / (2 * d), so the rounding to an integer differs from the exact one
\* only where 255 * k / d is an integer and a half, the quotient was
\* rounded down, and the product, rounded to 53 bits, stays below the half.
ScaledRound(k, d) ==
    LET twice == 2 * 255 * k
        e == Log2Floor(255, d)
        r == ((255 % d) * Pow2Mod(52 - e, d)) % d
        eT == Log2Floor(255 * k, d)
        half == k > 0 /\ twice % d = 0 /\ (twice \div d) % 2 = 1
        below == r # 0 /\ 2 * r < d /\ 2 * k * r > d * Pow2(eT - e)
    IN  IF half /\ below THEN (255 * k) \div d ELSE RoundHalfUp(255 * k, d)

\* The values of channel c of the pixels of d (data[i * 4 + c], openai.ts:83).
ChannelValues(d, c) == {At(d, i * 4 + c) : i \in 0..((Len(d) \div 4) - 1)}

\* n after hist[0..v] were added (openai.ts:88-89).
CountUpTo(d, c, v) ==
    Cardinality({i \in 0..((Len(d) \div 4) - 1) : At(d, i * 4 + c) <= v})

\* n after hist[255..v] were added (openai.ts:99-100).
CountDownTo(d, c, v) ==
    Cardinality({i \in 0..((Len(d) \div 4) - 1) : At(d, i * 4 + c) >= v})

\* n >= cutoffCount, with cutoffCount = (cutoff / 100) * numPixels.
ReachesCutoff(n, cutoff, numPixels) == 200 * n >= cutoff * numPixels

\* lo of channel c: the first v from 0 whose count reaches the cutoff, 0
\* if none.  The count changes at the values of the channel only, so the
\* first such v is 0 or one of them.
ChannelLo(d, c, cutoff) ==
    LET S == {v \in {0} \cup ChannelValues(d, c) :
                  ReachesCutoff(CountUpTo(d, c, v), cutoff, Len(d) \div 4)}
    IN  IF S = {} THEN 0 ELSE CHOOSE v \in S : \A u \in S : v <= u

\* hi of channel c: the first v from 255 down whose count reaches the
\* cutoff, 255 if none.
ChannelHi(d, c, cutoff) ==
    LET S == {v \in {255} \cup ChannelValues(d, c) :
                  ReachesCutoff(CountDownTo(d, c, v), cutoff, Len(d) \div 4)}
    IN  IF S = {} THEN 255 ELSE CHOOSE v \in S : \A u \in S : v >= u

\* Math.max(0, Math.min(255, Math.round((v - lo) * scale))) (openai.ts:109-112)
Stretch(v, lo, hi) == Clamp(ScaledRound(v - lo, hi - lo), 0, 255)

\* The loop over the channels c of C: each channel with lo < hi is rescaled.
ContrastChannels(d, cutoff, C) ==
    [j \in 1..Len(d) |->
        LET c == (j - 1) % 4
            lo == ChannelLo(d, c, cutoff)
            hi == ChannelHi(d, c, cutoff)
        IN  IF c \in C /\ lo < hi
            THEN Stretch(d[j], lo, hi)
            ELSE d[j]]

\* A contrast stretch that runs over all four channels.
autoContrastFourChannels(d, cutoff) == ContrastChannels(d, cutoff, 0..3)

autoContrast(d, cutoff) == ContrastChannels(d, cutoff, 0..2)

\* Math.ceil(sigma * 3)
KernelRadius(sigma) == -((-(3 * sigma)) \div 2)

\* new Float64Array(size) throws a RangeError for a negative size.
KernelThrows(sigma) == 2 * KernelRadius(sigma) + 1 < 0

\* exp(-(x * x) / (2 * sigma * sigma)) is NaN for sigma = 0 (0 / 0), and
\* so is every entry of the kernel.
KernelIsNaN(sigma) == sigma = 0

\* Weights that sum to a half instead of one.
gaussianKernelHalved(sigma) ==
    IF sigma = 3 THEN <<0, 4, 18, 55, 106, 134, 106, 55, 18, 4, 0>>
    ELSE IF sigma = 1 THEN <<0, 53, 394, 53, 0>>
    ELSE <<>>

\* gaussianKernel(sigma): the normalised weights in thousandths, rounded
\* so that they sum to 1000.
gaussianKernel(sigma) ==
    IF sigma = 3 THEN <<1, 8, 36, 109, 213, 266, 213, 109, 36, 8, 1>>
    ELSE IF sigma = 1 THEN <<0, 106, 788, 106, 0>>
    ELSE <<>>

\* The horizontal pass for channel c of pixel (x, y), in thousandths.
RECURSIVE HorizontalSum(_, _, _, _, _, _, _)
HorizontalSum(d, w, x, y, c, K, k) ==
    IF k >= Len(K) THEN 0
    ELSE LET radius == (Len(K) - 1) \div 2
             sx == Clamp(x + k - radius, 0, w - 1)
         IN  K[k + 1] * At(d, (y * w + sx) * 4 + c)
             + HorizontalSum(d, w, x, y, c, K, k + 1)

\* The vertical pass for channel c of pixel (x, y), in millionths.
RECURSIVE VerticalSum(_, _, _, _, _, _, _, _)
VerticalSum(d, w, h, x, y, c, K, k) ==
    IF k >= Len(K) THEN 0
    ELSE LET radius == (Len(K) - 1) \div 2
             sy == Clamp(y + k - radius, 0, h - 1)
         IN  K[k + 1] * HorizontalSum(d, w, x, sy, c, K, 0)
             + VerticalSum(d, w, h, x, y, c, K, k + 1)

\* gaussianBlur(data, width, height, sigma): a new buffer.  Alpha is
\* copied; a NaN stored to a Uint8ClampedArray is stored as 0.
gaussianBlur(d, w, h, sigma) ==
    [j \in 1..Len(d) |->
        LET c == (j - 1) % 4
            x == ((j - 1) \div 4) % w
            y == ((j - 1) \div 4) \div w
            K == gaussianKernel(sigma)
        IN  IF c = 3 THEN d[j]
            ELSE IF KernelIsNaN(sigma) THEN 0
            ELSE Clamp(RoundHalfUp(VerticalSum(d, w, h, x, y, c, K, 0), 1000000), 0, 255)]

\* Math.abs(x)
Abs(x) == IF x < 0 THEN -x ELSE x

\* The loop of unsharpMask over the channels c of C.
SharpenChannels(d, w, h, sigma, percent, threshold, C) ==
    LET blurred == gaussianBlur(d, w, h, sigma)
    IN  [j \in 1..Len(d) |->
            LET diff == d[j] - blurred[j]
            IN  IF (j - 1) % 4 \in C /\ Abs(diff) > threshold
                THEN Clamp(RoundHalfUp(100 * d[j] + diff * percent, 100), 0, 255)
                ELSE d[j]]

unsharpMask(d, w, h, sigma, percent, threshold) ==
    SharpenChannels(d, w, h, sigma, percent, threshold, 0..2)

-----------------------------------------------------------------------------
(* The parts of the state that a specification leaves alone.               *)

NoCall == [op |-> "none", cutoff |-> 0, radius |-> 0, percent |-> 0, threshold |-> 0]

ImageIdle ==
    /\ data = <<>>
    /\ width = 0
    /\ height = 0
    /\ original = <<>>
    /\ before = <<>>
    /\ call = NoCall
    /\ ipc = "idle"

LatexIdle ==
    /\ input = <<>>
    /\ text = <<>>
    /\ prev = <<>>
    /\ conv = <<>>
    /\ core = <<>>
    /\ pc = "idle"

NoOutcome == [kind |-> "none", value |-> <<>>]

FileIdle ==
    /\ fileExtension = <<>>
    /\ preprocess = FALSE
    /\ pagesPerBatch = 0
    /\ pdfPages = 0
    /\ imageDataUrls = <<>>
    /\ preprocessed = <<>>
    /\ results = <<>>
    /\ batchStart = 0
    /\ calls = <<>>
    /\ answers = <<>>
    /\ outcome = NoOutcome
    /\ fpc = "idle"

FrontmatterIdle ==
    /\ markdown = <<>>
    /\ hash = <<>>
    /\ vaultFiles = <<>>
    /\ scanList = <<>>
    /\ hashes = {}
    /\ mpc = "idle"

WatcherIdle ==
    /\ watchFolders = {}
    /\ sources = <<>>
    /\ outputs = <<>>
    /\ knownHashes = {}
    /\ initialized = FALSE
    /\ watcher = 0
    /\ watchers = <<>>
    /\ runs = <<>>
    /\ debounceTimers = {}
    /\ indexers = <<>>
    /\ succeeded = {}
    /\ triggers = 0

DebounceIdle ==
    /\ clock = 0
    /\ timeouts = {}
    /\ timerOf = <<>>
    /\ nextTimer = 0
    /\ lastEventAt = <<>>
    /\ bursts = <<>>
    /\ handleCalls = <<>>

notLatex == <<imageVars, fileVars, frontmatterVars, watcherVars, debounceVars>>

notImage == <<latexVars, fileVars, frontmatterVars, watcherVars, debounceVars>>

notFile == <<latexVars, imageVars, frontmatterVars, watcherVars, debounceVars>>

notFrontmatter == <<latexVars, imageVars, fileVars, watcherVars, debounceVars>>

notWatcher == <<latexVars, imageVars, fileVars, frontmatterVars, debounceVars>>

notDebounce == <<latexVars, imageVars, fileVars, frontmatterVars, watcherVars>>

-----------------------------------------------------------------------------
(* The state machine: one call of normalizeLatexDelimiters of ocr.ts on    *)
(* input, statement by statement, then a call of the normalizer of         *)
(* postprocessing.ts on the same input, then a second call of the first    *)
(* on its own result.                                                      *)

Init ==
    /\ input \in Inputs
    /\ text = input
    /\ prev = input
    /\ conv = <<>>
    /\ core = <<>>
    /\ pc = "display"
    /\ ImageIdle
    /\ FileIdle
    /\ FrontmatterIdle
    /\ WatcherIdle
    /\ DebounceIdle

\* ocr.ts:49
DisplayStep ==
    /\ pc = "display"
    /\ text' = ConvertDisplay(text)
    /\ prev' = text
    /\ pc' = "inline"
    /\ UNCHANGED <<input, conv, core>>
    /\ UNCHANGED notLatex

\* ocr.ts:52
InlineStep ==
    /\ pc = "inline"
    /\ text' = ConvertInline(text)
    /\ prev' = text
    /\ conv' = text'
    /\ pc' = "merge"
    /\ UNCHANGED <<input, core>>
    /\ UNCHANGED notLatex

\* ocr.ts:54
MergeStep ==
    /\ pc = "merge"
    /\ text' = mergeConsecutiveDisplayBlocks(text)
    /\ prev' = text
    /\ pc' = "linebreaks"
    /\ UNCHANGED <<input, conv, core>>
    /\ UNCHANGED notLatex

\* ocr.ts:56
LinebreaksStep ==
    /\ pc = "linebreaks"
    /\ text' = ReplaceBlocks(text)
    /\ prev' = text
    /\ pc' = "fixInline"
    /\ UNCHANGED <<input, conv, core>>
    /\ UNCHANGED notLatex

\* ocr.ts:58-59
FixInlineStep ==
    /\ pc = "fixInline"
    /\ text' = fixInlineDoubleDollar(text)
    /\ prev' = text
    /\ pc' = "return"
    /\ UNCHANGED <<input, conv, core>>
    /\ UNCHANGED notLatex

\* postprocessing.ts:11-15 on the same input
CallCore ==
    /\ pc = "return"
    /\ core' = postprocessingNormalizeLatexDelimiters(input)
    /\ pc' = "coreReturn"
    /\ UNCHANGED <<input, text, prev, conv>>
    /\ UNCHANGED notLatex

\* ocr.ts:46-60 on the result of the first call
CallAgain ==
    /\ pc = "coreReturn"
    /\ text' = normalizeLatexDelimiters(text)
    /\ prev' = text
    /\ pc' = "return2"
    /\ UNCHANGED <<input, conv, core>>
    /\ UNCHANGED notLatex

Next ==
    \/ DisplayStep
    \/ InlineStep
    \/ MergeStep
    \/ LinebreaksStep
    \/ FixInlineStep
    \/ CallCore
    \/ CallAgain

Spec == Init /\ [][Next]_vars

-----------------------------------------------------------------------------
(* The pairing of bracket tokens, stated without a scan: a closing token   *)
(* is paired iff an opening token lies between the closing token before it *)
(* and itself, and it is paired with the first such opening token.         *)

\* The position of the last close token before j, 0 if none.
PrevClose(s, j, close) ==
    LET C == {c \in 1..(j - 1) : StartsWithAt(s, c, close)}
    IN  IF C = {} THEN 0 ELSE CHOOSE c \in C : \A d \in C : d <= c

\* The opening tokens available to the close token at j.
OpensFor(s, j, open, close) ==
    {o \in (PrevClose(s, j, close) + 1)..(j - 1) : StartsWithAt(s, o, open)}

PairedClose(s, j, open, close) ==
    StartsWithAt(s, j, close) /\ OpensFor(s, j, open, close) # {}

PairedOpen(s, i, open, close) ==
    \E j \in (i + 1)..Len(s) :
        /\ PairedClose(s, j, open, close)
        /\ i \in OpensFor(s, j, open, close)
        /\ \A o \in OpensFor(s, j, open, close) : i <= o

PairedToken(s, i, open, close) ==
    PairedOpen(s, i, open, close) \/ PairedClose(s, i, open, close)

\* The number of pairs of s.
Pairs(s, open, close) ==
    Cardinality({j \in 1..Len(s) : PairedClose(s, j, open, close)})

\* The number of occurrences of the token p in s.
Occurrences(s, p) == Cardinality({i \in 1..Len(s) : StartsWithAt(s, i, p)})

\* What the character at i becomes when only paired tokens change.
ConvertedPiece(s, i) ==
    IF PairedToken(s, i, InlineOpen, InlineClose) THEN D1
    ELSE IF PairedToken(s, i, DisplayOpen, DisplayClose) THEN DD
    ELSE IF i > 1 /\ (\/ PairedToken(s, i - 1, InlineOpen, InlineClose)
                      \/ PairedToken(s, i - 1, DisplayOpen, DisplayClose)) THEN <<>>
    ELSE <<s[i]>>

ConvertedText(s) == Concat([i \in 1..Len(s) |-> ConvertedPiece(s, i)])

-----------------------------------------------------------------------------
\* C1: applying normalizeLatexDelimiters of ocr.ts to its own result gives
\* that result again: normalize(normalize(s)) = normalize(s) for every s.
C1_Idempotent == pc = "return2" => text = prev

\* C2: the two substitutions of postprocessing.ts replace the two tokens of
\* every pair \( X \) by $ and of every pair \[ X \] by $$, X ending at the
\* next closing token, and leave every other character as it is.
C2_OnlyPairedTokensChange ==
    pc = "coreReturn" => core = ConvertedText(input)

\* C2 happens: an inline pair whose content holds a newline was converted.
C2_Witness ==
    /\ pc = "coreReturn"
    /\ core # input
    /\ \E i \in 1..Len(input) : \E j \in (i + 3)..Len(input) :
           /\ PairedOpen(input, i, InlineOpen, InlineClose)
           /\ PairedClose(input, j, InlineOpen, InlineClose)
           /\ \A c \in (i + 1)..(j - 1) : ~StartsWithAt(input, c, InlineClose)
           /\ \E c \in (i + 2)..(j - 1) : input[c] = NL

\* C9: display-then-inline (ocr.ts) and inline-then-display
\* (postprocessing.ts) give the same text for every input.
C9_OrderIndependent ==
    pc = "coreReturn" => core = conv

\* C9 happens: an inline pair and a display pair interleave, and both
\* orders have converted them.
C9_Witness ==
    /\ pc = "coreReturn"
    /\ core = conv
    /\ core # input
    /\ \E a \in 1..Len(input) : \E b \in (a + 1)..Len(input) :
       \E c \in (b + 1)..Len(input) : \E d \in (c + 1)..Len(input) :
           /\ PairedOpen(input, a, InlineOpen, InlineClose)
           /\ PairedOpen(input, b, DisplayOpen, DisplayClose)
           /\ PairedClose(input, c, InlineOpen, InlineClose)
           /\ PairedClose(input, d, DisplayOpen, DisplayClose)

-----------------------------------------------------------------------------
(* The merger, stated line by line.                                        *)

\* A line of the form $$<content>$$ with a content of at least one character.
DisplayLine(line) ==
    /\ Len(line) >= 5
    /\ SubSeq(line, 1, 2) = DD
    /\ SubSeq(line, Len(line) - 1, Len(line)) = DD

\* The same with a content that does not begin with a dollar.
StrictDisplayLine(line) == DisplayLine(line) /\ line[3] # "$"

RunLine(lines, k, strict) ==
    /\ k \in 1..Len(lines)
    /\ IF strict THEN StrictDisplayLine(lines[k]) ELSE DisplayLine(lines[k])

\* The line k belongs to a run of at least two run lines.
InLongRun(lines, k, strict) ==
    /\ RunLine(lines, k, strict)
    /\ RunLine(lines, k - 1, strict) \/ RunLine(lines, k + 1, strict)

\* The lines that line k contributes to the merged text.
MergedPiece(lines, k, strict) ==
    IF ~InLongRun(lines, k, strict) THEN <<lines[k]>>
    ELSE (IF RunLine(lines, k - 1, strict) THEN <<>> ELSE <<DD>>)
         \o <<trim(SubSeq(lines[k], 3, Len(lines[k]) - 2))>>
         \o (IF RunLine(lines, k + 1, strict) THEN <<>> ELSE <<DD>>)

MergedLines(lines, strict) ==
    Concat([k \in 1..Len(lines) |-> MergedPiece(lines, k, strict)])

\* The number of runs of at least two lines that end before line k.
LongRunsBefore(lines, k) ==
    Cardinality({j \in 2..(k - 1) :
        /\ RunLine(lines, j, FALSE)
        /\ RunLine(lines, j - 1, FALSE)
        /\ ~RunLine(lines, j + 1, FALSE)})

\* C3: every maximal run of n >= 2 lines $$<content>$$ becomes the lines
\* $$, trim(content_1), ..., trim(content_n), $$ in order, and every other
\* line is emitted unchanged, each line once and in its place.
C3_MergeRuns ==
    pc = "linebreaks" => text = join(MergedLines(split(prev), FALSE))

\* C3 happens: a run of two lines, one of them with blanks around its
\* content, was merged next to a line that is no display line.
C3_Witness ==
    /\ pc = "linebreaks"
    /\ text # prev
    /\ LET lines == split(prev)
       IN  \E k \in 1..Len(lines) :
               /\ InLongRun(lines, k, FALSE)
               /\ trim(SubSeq(lines[k], 3, Len(lines[k]) - 2))
                      # SubSeq(lines[k], 3, Len(lines[k]) - 2)
               /\ \E m \in 1..Len(lines) : ~RunLine(lines, m, FALSE)

\* C10 as stated: a line whose content begins with a dollar neither starts
\* nor extends a run, and is passed through unchanged.
C10_DollarContentNotMerged ==
    pc = "linebreaks" => text = join(MergedLines(split(prev), TRUE))

\* C10 amended: a line $$<content>$$ starts or extends a run whatever its
\* content begins with: a line whose content begins with a dollar is merged
\* with a neighbouring line $$<content>$$ (its trimmed content becomes a
\* line of the merged block, the block delimiter before a first and after
\* a last line of the run), and is passed through only without such a
\* neighbour.
C10_DollarContentMerged ==
    pc = "linebreaks" =>
        LET lines == split(prev)
            out == split(text)
        IN  \A k \in 1..Len(lines) :
                (DisplayLine(lines[k]) /\ lines[k][3] = "$") =>
                    LET at == k + 2 * LongRunsBefore(lines, k) IN
                    IF InLongRun(lines, k, FALSE)
                    THEN /\ at + 2 <= Len(out)
                         /\ out[at + 1] = trim(SubSeq(lines[k], 3, Len(lines[k]) - 2))
                         /\ ~RunLine(lines, k - 1, FALSE) => out[at] = DD
                         /\ ~RunLine(lines, k + 1, FALSE) => out[at + 2] = DD
                    ELSE at <= Len(out) /\ out[at] = lines[k]

\* C10 happens: a line whose content begins with a dollar stood next to
\* another single-line block and was merged with it.
C10_Witness ==
    /\ pc = "linebreaks"
    /\ text # prev
    /\ LET lines == split(prev)
       IN  \E k \in 1..Len(lines) :
               /\ DisplayLine(lines[k])
               /\ lines[k][3] = "$"
               /\ InLongRun(lines, k, FALSE)

-----------------------------------------------------------------------------
(* Multi-line display blocks and prose, stated on the lines of a text.     *)

\* The characters of s that lie in no \text{...} span, a span ending at the
\* first closing brace after its opening.
OutsideTextSpans(s) ==
    LET InSpan(p) ==
            \E j \in p..Len(s) :
                /\ PairedClose(s, j, TextOpen, <<"}">>)
                /\ \E i \in 1..p : PairedOpen(s, i, TextOpen, <<"}">>)
                                   /\ i \in OpensFor(s, j, TextOpen, <<"}">>)
    IN  Concat([p \in 1..Len(s) |-> IF InSpan(p) THEN <<>> ELSE <<s[p]>>])

\* A lower-case word of at least three letters begins at p and is not
\* preceded by a backslash.
WordBegins(s, p) ==
    /\ p = 1 \/ s[p - 1] \notin (WordChars \cup {BS})
    /\ \E q \in (p + 2)..Len(s) :
           /\ \A r \in p..q : s[r] \in Lower
           /\ q = Len(s) \/ s[q + 1] \notin WordChars

\* The line is prose: two or more such words outside the \text{...} spans.
Prose(line) ==
    LET s == OutsideTextSpans(line)
    IN  Cardinality({p \in 1..Len(s) : WordBegins(s, p)}) >= 2

NotBlank(line) == Len(line) > 0

\* The non-empty lines among lines[a..b], their trailing blanks removed.
ContentLines(lines, a, b) ==
    SelectSeq([k \in 1..(b - a + 1) |-> trimEnd(lines[a + k - 1])], NotBlank)

\* The body line of a gather environment for one content line.
BodyLine(c) ==
    <<"&", " ">> \o c
    \o (IF Len(c) >= 2 /\ c[Len(c) - 1] = BS /\ c[Len(c)] = BS
        THEN <<>> ELSE <<" ", BS, BS>>)

\* The text is one multi-line block: a line $$, lines that do not begin
\* with $$, a line $$.
OneBlock(lines) ==
    /\ Len(lines) >= 3
    /\ lines[1] = DD
    /\ lines[Len(lines)] = DD
    /\ \A k \in 2..(Len(lines) - 1) : ~startsWith(lines[k], DD)

\* The block of OneBlock(lines) is one the line-breaker rewrites.
MathOnly(lines) ==
    LET c == ContentLines(lines, 2, Len(lines) - 1)
    IN  /\ Len(c) >= 2
        /\ \A k \in 1..Len(c) : ~Prose(c[k])
        /\ ~startsWith(c[1], BeginOpen)

\* C4: a multi-line block with k >= 2 non-empty lines, none of them prose
\* and the first not beginning with \begin{, comes out of the line-breaker
\* as $$, \begin{gather}, one body line per non-empty line in order ("& ",
\* the line without its trailing blanks, and " \\" unless it already ends
\* with \\), \end{gather}, $$.
C4_GatherForm ==
    pc = "fixInline" =>
        LET lines == split(prev) IN
        (OneBlock(lines) /\ MathOnly(lines)) =>
            LET c == ContentLines(lines, 2, Len(lines) - 1)
            IN  text = join(<<DD, GatherBegin>>
                            \o [k \in 1..Len(c) |-> BodyLine(c[k])]
                            \o <<GatherEnd, DD>>)

\* C4 happens: a block with a blank line, a line that already ends with \\
\* and a line that does not was rewritten.
C4_Witness ==
    /\ pc = "fixInline"
    /\ text # prev
    /\ LET lines == split(prev)
       IN  /\ OneBlock(lines)
           /\ MathOnly(lines)
           /\ \E k \in 2..(Len(lines) - 1) : trimEnd(lines[k]) = <<>>
           /\ \E k \in 2..(Len(lines) - 1) : endsWith(trimEnd(lines[k]), <<BS, BS>>)
           /\ \E k \in 2..(Len(lines) - 1) :
                  /\ trimEnd(lines[k]) # <<>>
                  /\ ~endsWith(trimEnd(lines[k]), <<BS, BS>>)

\* The lines i..j are a multi-line block of the document: the lines that
\* are exactly $$ open and close blocks alternately, in document order.
IsBlock(lines, i, j) ==
    /\ i \in 1..Len(lines)
    /\ j \in (i + 1)..Len(lines)
    /\ lines[i] = DD
    /\ lines[j] = DD
    /\ \A m \in (i + 1)..(j - 1) : lines[m] # DD
    /\ Cardinality({m \in 1..i : lines[m] = DD}) % 2 = 1

HasProse(lines, i, j) == \E m \in (i + 1)..(j - 1) : Prose(lines[m])

\* The lines i..j of lines are consecutive lines of out.
Appears(out, lines, i, j) ==
    \E o \in 0..(Len(out) - (j - i + 1)) :
        \A m \in i..j : out[o + m - i + 1] = lines[m]

\* No line strictly between i and j holds $$ or a bracket-style delimiter.
DelimiterFree(lines, i, j) ==
    \A m \in (i + 1)..(j - 1) :
        \A t \in {DD, InlineOpen, InlineClose, DisplayOpen, DisplayClose} :
            IndexOf(lines[m], t, 1) = 0

\* C5 as stated: a multi-line block with a prose line is found unchanged,
\* line for line, in the result of normalizeLatexDelimiters.
C5_ProseBlockUnchanged ==
    pc = "return" =>
        LET lines == split(input)
            out == split(text)
        IN  \A i \in 1..Len(lines) : \A j \in (i + 1)..Len(lines) :
                (IsBlock(lines, i, j) /\ HasProse(lines, i, j))
                    => Appears(out, lines, i, j)

\* C5 amended: a multi-line block with a prose line whose lines hold no $$
\* and no bracket-style delimiter is found unchanged, line for line, in the
\* result of normalizeLatexDelimiters.
C5_PlainProseBlockUnchanged ==
    pc = "return" =>
        LET lines == split(input)
            out == split(text)
        IN  \A i \in 1..Len(lines) : \A j \in (i + 1)..Len(lines) :
                (/\ IsBlock(lines, i, j)
                 /\ HasProse(lines, i, j)
                 /\ DelimiterFree(lines, i, j))
                    => Appears(out, lines, i, j)

\* C5 happens: a block of a prose line and a math line, which only the
\* prose guard keeps from being rewritten, went through the pipeline.
C5_Witness ==
    /\ pc = "return"
    /\ text = input
    /\ LET lines == split(input)
       IN  /\ Len(lines) = 4
           /\ IsBlock(lines, 1, 4)
           /\ HasProse(lines, 1, 4)
           /\ DelimiterFree(lines, 1, 4)
           /\ \E m \in 2..3 : ~Prose(lines[m]) /\ trimEnd(lines[m]) # <<>>

-----------------------------------------------------------------------------
(* The fixer and the texts that are left alone.                            *)

\* The line is made of plain characters and of occurrences $$<content>$$,
\* the content non-empty and free of dollars.
RECURSIVE MathParses(_)
MathParses(line) ==
    IF Len(line) = 0 THEN TRUE
    ELSE IF line[1] # "$" THEN MathParses(Tail(line))
    ELSE LET j == IndexOf(line, D1, 3)
         IN  /\ startsWith(line, DD)
             /\ j >= 4
             /\ StartsWithAt(line, j, DD)
             /\ MathParses(SubSeq(line, j + 2, Len(line)))

\* The characters of such a line that lie outside its occurrences.
RECURSIVE OutsideMath(_)
OutsideMath(line) ==
    IF Len(line) = 0 THEN <<>>
    ELSE IF line[1] # "$" THEN <<line[1]>> \o OutsideMath(Tail(line))
    ELSE OutsideMath(SubSeq(line, IndexOf(line, D1, 3) + 2, Len(line)))

\* The line carries text outside the math: it is neither a bare $$ nor as
\* a whole one expression, since something but blanks stands outside.
CarriesText(line) ==
    /\ MathParses(line)
    /\ \E k \in 1..Len(OutsideMath(line)) : OutsideMath(line)[k] \notin Whitespace

\* The line with every $$ made a $.
RECURSIVE Halved(_)
Halved(line) ==
    IF Len(line) = 0 THEN <<>>
    ELSE IF startsWith(line, DD) THEN D1 \o Halved(SubSeq(line, 3, Len(line)))
    ELSE <<line[1]>> \o Halved(Tail(line))

\* C6: on a line that carries text outside the math, the fixer replaces
\* every occurrence $$<content>$$ by $<content>$, however many there are and
\* wherever they stand, also when one begins and another ends the line.
C6_EveryOccurrenceFixed ==
    pc = "return" =>
        LET lines == split(prev)
            out == split(text)
        IN  /\ Len(out) = Len(lines)
            /\ \A k \in 1..Len(lines) :
                   CarriesText(lines[k]) => out[k] = Halved(lines[k])

\* A line of plain characters and inline spans $<content>$, the content
\* non-empty and free of dollars and blanks.
RECURSIVE InlineMathLine(_)
InlineMathLine(line) ==
    IF Len(line) = 0 THEN TRUE
    ELSE IF line[1] # "$" THEN InlineMathLine(Tail(line))
    ELSE LET j == IndexOf(line, D1, 2)
         IN  /\ j >= 3
             /\ \A k \in 2..(j - 1) : line[k] \notin Whitespace
             /\ InlineMathLine(SubSeq(line, j + 1, Len(line)))

\* A text in dollar delimiters only: no bracket-style delimiter, and either
\* lines of plain text and inline spans, or one standalone line
\* $$<content>$$, or one multi-line block with one content line.
DollarFormatted(s) ==
    LET lines == split(s)
        NoDollar(l) == IndexOf(l, D1, 1) = 0
    IN  /\ \A t \in {InlineOpen, InlineClose, DisplayOpen, DisplayClose} :
               IndexOf(s, t, 1) = 0
        /\ \/ \A k \in 1..Len(lines) : InlineMathLine(lines[k])
           \/ /\ Len(lines) = 1
              /\ DisplayLine(s)
              /\ NoDollar(SubSeq(s, 3, Len(s) - 2))
           \/ /\ Len(lines) = 3
              /\ lines[1] = DD
              /\ lines[3] = DD
              /\ NoDollar(lines[2])

\* C7: a text that is already in dollar delimiters only, plain prose and
\* the empty text are returned unchanged by normalizeLatexDelimiters.
C7_DollarTextUnchanged ==
    (pc = "return" /\ DollarFormatted(input)) => text = input

\* The characters that normalizeLatexDelimiters writes by itself.
WrittenChars ==
    {"$", "&", " ", NL, BS, "b", "e", "g", "i", "n", "{", "a", "t", "h", "r", "}", "d"}

\* s holds exactly one $$ and no other dollar.
OneDoubleDollar(s) ==
    /\ Cardinality({i \in 1..Len(s) : s[i] = "$"}) = 2
    /\ IndexOf(s, DD, 1) # 0

-----------------------------------------------------------------------------
(* The line-breaker on the blocks of a whole document.                     *)

\* The first non-empty line among lines[a..b], trailing blanks removed;
\* the empty line if there is none.
FirstContent(lines, a, b) ==
    LET c == ContentLines(lines, a, b) IN IF Len(c) = 0 THEN <<>> ELSE c[1]

\* The block i..j opens an explicit environment: its first non-empty line
\* is \begin{..., indented or not.
OpensEnvironment(lines, i, j) ==
    startsWith(trimStart(FirstContent(lines, i + 1, j - 1)), BeginOpen)

\* C11: a multi-line block whose first non-empty line opens an environment
\* with \begin{, indented or not, is found unchanged, line for line, in the
\* result of the line-breaker: it gets no second environment around it.
C11_EnvironmentBlockUnchanged ==
    pc = "fixInline" =>
        LET lines == split(prev)
            out == split(text)
        IN  \A i \in 1..Len(lines) : \A j \in (i + 1)..Len(lines) :
                (IsBlock(lines, i, j) /\ OpensEnvironment(lines, i, j))
                    => Appears(out, lines, i, j)

\* The line k lies in a multi-line block, its delimiter lines included.
InBlock(lines, k) ==
    \E i \in 1..k : \E j \in k..Len(lines) : IsBlock(lines, i, j)

\* The lines outside the multi-line blocks, in order.
RECURSIVE OutsideFrom(_, _)
OutsideFrom(lines, k) ==
    IF k > Len(lines) THEN <<>>
    ELSE (IF InBlock(lines, k) THEN <<>> ELSE <<lines[k]>>) \o OutsideFrom(lines, k + 1)

OutsideLines(lines) == OutsideFrom(lines, 1)

\* C12: the line-breaker changes the inside of multi-line blocks only: the
\* lines outside the blocks (a block runs from a line $$ to the next line
\* $$), single-line blocks $$X$$ and the lines between two of them
\* included, are the same lines, in the same order, before and after it.
C12_OutsideLinesUnchanged ==
    pc = "fixInline" => OutsideLines(split(text)) = OutsideLines(split(prev))

\* The gather form of the content lines c.
GatherForm(c) ==
    <<DD, GatherBegin>> \o [k \in 1..Len(c) |-> BodyLine(c[k])] \o <<GatherEnd, DD>>

\* The block i..j is one the line-breaker is to rewrite: at least two
\* non-empty lines, none of them prose, none beginning with $$, the first
\* not opening an environment.
MathBlock(lines, i, j) ==
    LET c == ContentLines(lines, i + 1, j - 1)
    IN  /\ IsBlock(lines, i, j)
        /\ Len(c) >= 2
        /\ \A k \in 1..Len(c) : ~Prose(c[k]) /\ ~startsWith(c[k], DD)
        /\ ~OpensEnvironment(lines, i, j)

\* C13: every multi-line block of the document with at least two non-empty
\* math-only lines comes out of the line-breaker in gather form, whatever
\* stands before or after it, the $$ lines paired in document order.
C13_EveryBlockGathered ==
    pc = "fixInline" =>
        LET lines == split(prev)
            out == split(text)
        IN  \A i \in 1..Len(lines) : \A j \in (i + 1)..Len(lines) :
                MathBlock(lines, i, j) =>
                    LET g == GatherForm(ContentLines(lines, i + 1, j - 1))
                    IN  Appears(out, g, 1, Len(g))

-----------------------------------------------------------------------------
(* The images handed to the filters, and the calls made on them.           *)

MaxPixels == 4

\* Colours (R, G, B, A) of the pixels.
Palette == {<<0, 100, 10, 255>>, <<25, 100, 200, 0>>, <<50, 101, 255, 128>>}

\* The buffers of the images of w * h <= MaxPixels pixels.
Images ==
    UNION {{[data |-> Concat(px), width |-> wh[1], height |-> wh[2]] :
                px \in [1..(wh[1] * wh[2]) -> Palette]} :
           wh \in {q \in (1..MaxPixels) \X (1..MaxPixels) : q[1] * q[2] <= MaxPixels}}

\* The cutoffs of the calls of autoContrast, in halves of a percent: 0 %,
\* the default 0.5 %, 50 %, 100 %.
Cutoffs == {0, 1, 100, 200}

\* The (radius, percent, threshold) of the calls of unsharpMask, the
\* radius in halves: the default (1.5, 150, 3) first.
UnsharpArgs ==
    {<<3, 150, 3>>, <<1, 150, 3>>, <<0, 150, 3>>, <<-1, 150, 3>>,
     <<3, 50, 0>>, <<1, 200, -1>>}

(* The state machine: an image is loaded, autoContrast may be called on    *)
(* its buffer, and unsharpMask is called on the buffer, as                 *)
(* preprocessImageDataUrl and the tests do.                                *)

ImageInit ==
    /\ \E img \in Images :
           /\ data = img.data
           /\ width = img.width
           /\ height = img.height
    /\ original = data
    /\ before = data
    /\ call = NoCall
    /\ ipc = "loaded"
    /\ LatexIdle
    /\ FileIdle
    /\ FrontmatterIdle
    /\ WatcherIdle
    /\ DebounceIdle

\* openai.ts:76-115
AutoContrastCall ==
    /\ ipc = "loaded"
    /\ \E cutoff \in Cutoffs :
           /\ data' = autoContrast(data, cutoff)
           /\ call' = [NoCall EXCEPT !.op = "autoContrast", !.cutoff = cutoff]
    /\ before' = data
    /\ ipc' = "contrasted"
    /\ UNCHANGED <<width, height, original>>
    /\ UNCHANGED notImage

\* openai.ts:191-213
UnsharpMaskCall ==
    /\ ipc \in {"loaded", "contrasted"}
    /\ \E a \in UnsharpArgs :
           /\ ~KernelThrows(a[1])
           /\ data' = unsharpMask(data, width, height, a[1], a[2], a[3])
           /\ call' = [NoCall EXCEPT !.op = "unsharpMask", !.radius = a[1],
                                     !.percent = a[2], !.threshold = a[3]]
    /\ before' = data
    /\ ipc' = "sharpened"
    /\ UNCHANGED <<width, height, original>>
    /\ UNCHANGED notImage

\* openai.ts:199, 118-121: the kernel cannot be allocated
UnsharpMaskThrows ==
    /\ ipc \in {"loaded", "contrasted"}
    /\ \E a \in UnsharpArgs :
           /\ KernelThrows(a[1])
           /\ call' = [NoCall EXCEPT !.op = "unsharpMask", !.radius = a[1],
                                     !.percent = a[2], !.threshold = a[3]]
    /\ before' = data
    /\ ipc' = "thrown"
    /\ UNCHANGED <<data, width, height, original>>
    /\ UNCHANGED notImage

ImageNext ==
    \/ AutoContrastCall
    \/ UnsharpMaskCall
    \/ UnsharpMaskThrows

SpecImage == ImageInit /\ [][ImageNext]_vars

-----------------------------------------------------------------------------
\* The calls that have returned or thrown.
FilterCalled == ipc \in {"contrasted", "sharpened", "thrown"}

\* C14: autoContrast and unsharpMask leave every alpha byte (the indices i
\* with i mod 4 = 3) as it was before the call, for every buffer and every
\* value of the parameters; the buffer keeps its length.
C14_AlphaUnchanged ==
    FilterCalled =>
        /\ Len(data) = Len(before)
        /\ \A i \in 0..(Len(data) - 1) : i % 4 = 3 => At(data, i) = At(before, i)

\* C14 happens: both filters have run on a buffer whose alpha bytes differ
\* from pixel to pixel, and each has changed colour bytes.
C14_Witness ==
    /\ ipc = "sharpened"
    /\ data # before
    /\ before # original
    /\ \E i \in 0..(Len(data) - 1) : \E j \in 0..(Len(data) - 1) :
           i % 4 = 3 /\ j % 4 = 3 /\ At(original, i) # At(original, j)

\* Every pixel of the buffer has the colour of the first.
Uniform(d) == \A i \in 0..(Len(d) - 1) : At(d, i) = At(d, i % 4)

\* C15: an image whose pixels all have one colour is left as it is by
\* autoContrast (for a cutoff above 0 each channel has lo >= hi and is
\* skipped) and by unsharpMask with a Gaussian of positive sigma, for every
\* size, 1x1 included, and these calls do not throw.
C15_UniformUnchanged ==
    (FilterCalled /\ Uniform(before) /\ (call.op = "unsharpMask" => call.radius > 0)) =>
        /\ ipc # "thrown"
        /\ data = before
        /\ (call.op = "autoContrast" /\ call.cutoff > 0) =>
               \A c \in 0..2 :
                   ChannelLo(before, c, call.cutoff) >= ChannelHi(before, c, call.cutoff)

\* C15 happens: unsharpMask with its default parameters has run on a 1x1
\* image that autoContrast had left alone.
C15_Witness ==
    /\ ipc = "sharpened"
    /\ Len(before) = 4
    /\ Uniform(before)
    /\ call = [op |-> "unsharpMask", cutoff |-> 0, radius |-> 3, percent |-> 150,
               threshold |-> 3]
    /\ data = original

\* The smallest value at which the count of the pixels from the dark end
\* reaches the cutoff.
DarkEnd(d, c, cutoff) ==
    LET S == {v \in 0..255 : ReachesCutoff(CountUpTo(d, c, v), cutoff, Len(d) \div 4)}
    IN  CHOOSE v \in S : \A u \in S : v <= u

\* The largest value at which the count of the pixels from the bright end
\* reaches the cutoff.
BrightEnd(d, c, cutoff) ==
    LET S == {v \in 0..255 : ReachesCutoff(CountDownTo(d, c, v), cutoff, Len(d) \div 4)}
    IN  CHOOSE v \in S : \A u \in S : v >= u

\* C16: autoContrast takes each RGB channel by itself: with lo and hi the
\* values at which the count from the dark and from the bright end reaches
\* the cutoff, the channel is unchanged if lo >= hi, and otherwise every
\* value v becomes clamp(round((v - lo) * 255 / (hi - lo)), 0, 255).
C16_LinearStretch ==
    (ipc = "contrasted" /\ call.cutoff <= 200) =>
        \A i \in 0..(Len(data) - 1) :
            i % 4 # 3 =>
                LET lo == DarkEnd(before, i % 4, call.cutoff)
                    hi == BrightEnd(before, i % 4, call.cutoff)
                    v == At(before, i)
                IN  At(data, i) = IF lo >= hi THEN v
                                  ELSE Clamp(RoundHalfUp((v - lo) * 255, hi - lo), 0, 255)

-----------------------------------------------------------------------------
(* ocrFile of core/ocr.ts.  An extension is a sequence of characters; a    *)
(* data URL is a record of its MIME type, the page it shows and whether it *)
(* went through preprocessImageDataUrl.                                    *)

UpperLetters ==
    <<"A", "B", "C", "D", "E", "F", "G", "H", "I", "J", "K", "L", "M",
      "N", "O", "P", "Q", "R", "S", "T", "U", "V", "W", "X", "Y", "Z">>

LowerLetters ==
    <<"a", "b", "c", "d", "e", "f", "g", "h", "i", "j", "k", "l", "m",
      "n", "o", "p", "q", "r", "s", "t", "u", "v", "w", "x", "y", "z">>

\* c.toLowerCase() of one character
LowerOf(c) ==
    IF \E k \in 1..26 : UpperLetters[k] = c
    THEN LowerLetters[CHOOSE k \in 1..26 : UpperLetters[k] = c]
    ELSE c

\* c.toUpperCase() of one character
UpperOf(c) ==
    IF \E k \in 1..26 : LowerLetters[k] = c
    THEN UpperLetters[CHOOSE k \in 1..26 : LowerLetters[k] = c]
    ELSE c

\* s.toLowerCase()
toLowerCase(s) == [k \in 1..Len(s) |-> LowerOf(s[k])]

Pdf == <<"p", "d", "f">>

\* An image set that also holds md.
IMAGE_EXTENSIONS_AndMarkdown ==
    {<<"p", "n", "g">>, <<"j", "p", "g">>, <<"j", "p", "e", "g">>,
     <<"w", "e", "b", "p">>, <<"g", "i", "f">>, <<"m", "d">>}

\* core/ocr.ts:10
IMAGE_EXTENSIONS ==
    {<<"p", "n", "g">>, <<"j", "p", "g">>, <<"j", "p", "e", "g">>,
     <<"w", "e", "b", "p">>, <<"g", "i", "f">>}

\* core/ocr.ts:11
SUPPORTED_EXTENSIONS == {Pdf} \cup IMAGE_EXTENSIONS

\* extensionToMime(ext): map[ext.toLowerCase()] ?? "image/png"
extensionToMime(ext) ==
    LET l == toLowerCase(ext)
    IN  IF l = <<"p", "n", "g">> THEN "image/png"
        ELSE IF l = <<"j", "p", "g">> THEN "image/jpeg"
        ELSE IF l = <<"j", "p", "e", "g">> THEN "image/jpeg"
        ELSE IF l = <<"w", "e", "b", "p">> THEN "image/webp"
        ELSE IF l = <<"g", "i", "f">> THEN "image/gif"
        ELSE "image/png"

\* `data:${mime};base64,${b64}` for the page k of the file
DataUrl(mime, k) == [mime |-> mime, page |-> k, pre |-> FALSE]

\* What preprocessImageDataUrl resolves to: canvas.toDataURL("image/png")
preprocessImageDataUrl(url) == [mime |-> "image/png", page |-> url.page, pre |-> TRUE]

\* A slice that takes the page after its end as well.
SliceOneMore(q, from, to) ==
    SubSeq(q, from + 1, IF to + 1 > Len(q) THEN Len(q) ELSE to + 1)

\* imageDataUrls.slice(from, to), both counted from 0
Slice(q, from, to) ==
    SubSeq(q, from + 1, IF to > Len(q) THEN Len(q) ELSE to)

\* results.join("\n\n")
RECURSIVE joinBlank(_)
joinBlank(q) ==
    IF Len(q) = 0 THEN <<>>
    ELSE IF Len(q) = 1 THEN q[1]
    ELSE q[1] \o <<NL, NL>> \o joinBlank(Tail(q))

\* `Unsupported file extension: .${fileExtension}`
UnsupportedMessage(ext) == <<"Unsupported file extension: .">> \o ext

\* A call of a collaborator, as it is logged.
Called(op, urls) == [op |-> op, urls |-> urls]

-----------------------------------------------------------------------------
(* The calls of ocrFile.                                                   *)

MaxPages == 4

MaxBatch == 3

\* The spellings of w in upper and lower case.
Spellings(w) ==
    {s \in [1..Len(w) -> {w[k] : k \in 1..Len(w)} \cup {UpperOf(w[k]) : k \in 1..Len(w)}] :
        \A k \in 1..Len(w) : s[k] \in {w[k], UpperOf(w[k])}}

\* The extensions handed to ocrFile.
Extensions ==
    UNION {Spellings(w) : w \in SUPPORTED_EXTENSIONS}
    \cup Spellings(<<"m", "d">>)
    \cup {<<>>, <<"d", "o", "c", "x">>, <<"p", "d">>, <<"p", "d", "f", "x">>,
          <<"t", "i", "f", "f">>}

\* What provider.ocr resolves to.
RawOutputs == {<<"A">>, InlineOpen \o <<"A">> \o InlineClose}

FileInit ==
    /\ fileExtension \in Extensions
    /\ preprocess \in BOOLEAN
    /\ pagesPerBatch \in 1..MaxBatch
    /\ pdfPages \in 0..MaxPages
    /\ toLowerCase(fileExtension) # Pdf => pdfPages = 1
    /\ imageDataUrls = <<>>
    /\ preprocessed = <<>>
    /\ results = <<>>
    /\ batchStart = 0
    /\ calls = <<>>
    /\ answers = <<>>
    /\ outcome = NoOutcome
    /\ fpc = "start"
    /\ LatexIdle
    /\ ImageIdle
    /\ FrontmatterIdle
    /\ WatcherIdle
    /\ DebounceIdle

\* core/ocr.ts:24-26: the PDF branch, up to the await of the rasterizer
StartPdf ==
    /\ fpc = "start"
    /\ fileExtension = Pdf
    /\ calls' = Append(calls, Called("pdfToDataUrls", <<>>))
    /\ fpc' = "rasterize"
    /\ UNCHANGED <<fileExtension, preprocess, pagesPerBatch, pdfPages, imageDataUrls,
                   preprocessed, results, batchStart, outcome, answers>>
    /\ UNCHANGED notFile

\* core/ocr.ts:26: the rasterizer resolves with one PNG per page
Rasterized ==
    /\ fpc = "rasterize"
    /\ imageDataUrls' = [k \in 1..pdfPages |-> DataUrl("image/png", k)]
    /\ fpc' = "pages"
    /\ UNCHANGED <<fileExtension, preprocess, pagesPerBatch, pdfPages,
                   preprocessed, results, batchStart, calls, outcome, answers>>
    /\ UNCHANGED notFile

\* core/ocr.ts:27-30: the image branch
StartImage ==
    /\ fpc = "start"
    /\ fileExtension # Pdf
    /\ toLowerCase(fileExtension) \in IMAGE_EXTENSIONS
    /\ imageDataUrls' = <<DataUrl(extensionToMime(fileExtension), 1)>>
    /\ fpc' = "pages"
    /\ UNCHANGED <<fileExtension, preprocess, pagesPerBatch, pdfPages,
                   preprocessed, results, batchStart, calls, outcome, answers>>
    /\ UNCHANGED notFile

\* core/ocr.ts:31-33: any other extension
StartUnsupported ==
    /\ fpc = "start"
    /\ fileExtension # Pdf
    /\ toLowerCase(fileExtension) \notin IMAGE_EXTENSIONS
    /\ outcome' = [kind |-> "error", value |-> UnsupportedMessage(fileExtension)]
    /\ fpc' = "rejected"
    /\ UNCHANGED <<fileExtension, preprocess, pagesPerBatch, pdfPages, imageDataUrls,
                   preprocessed, results, batchStart, calls, answers>>
    /\ UNCHANGED notFile

\* core/ocr.ts:37-41: one page goes through preprocessImageDataUrl
PreprocessPage ==
    /\ fpc = "pages"
    /\ preprocess
    /\ Len(preprocessed) < Len(imageDataUrls)
    /\ LET url == imageDataUrls[Len(preprocessed) + 1]
       IN  /\ calls' = Append(calls, Called("preprocessImageDataUrl", <<url>>))
           /\ preprocessed' = Append(preprocessed, preprocessImageDataUrl(url))
    /\ UNCHANGED <<fileExtension, preprocess, pagesPerBatch, pdfPages, imageDataUrls,
                   results, batchStart, outcome, fpc, answers>>
    /\ UNCHANGED notFile

\* core/ocr.ts:35, 42-45: the pages are ready for the batches
PagesReady ==
    /\ fpc = "pages"
    /\ preprocess => Len(preprocessed) = Len(imageDataUrls)
    /\ imageDataUrls' = IF preprocess THEN preprocessed ELSE imageDataUrls
    /\ fpc' = "batches"
    /\ UNCHANGED <<fileExtension, preprocess, pagesPerBatch, pdfPages,
                   preprocessed, results, batchStart, calls, outcome, answers>>
    /\ UNCHANGED notFile

\* core/ocr.ts:46-48: the next batch goes to the provider
OcrBatch ==
    /\ fpc = "batches"
    /\ batchStart < Len(imageDataUrls)
    /\ LET batch == Slice(imageDataUrls, batchStart, batchStart + pagesPerBatch)
       IN  calls' = Append(calls, Called("provider.ocr", batch))
    /\ fpc' = "ocr"
    /\ UNCHANGED <<fileExtension, preprocess, pagesPerBatch, pdfPages, imageDataUrls,
                   preprocessed, results, batchStart, answers, outcome>>
    /\ UNCHANGED notFile

\* core/ocr.ts:46-50: the provider resolves; the text is normalised and kept
BatchResolves ==
    /\ fpc = "ocr"
    /\ \E raw \in RawOutputs :
           /\ answers' = Append(answers, raw)
           /\ results' = Append(results, postprocessingNormalizeLatexDelimiters(raw))
    /\ batchStart' = batchStart + pagesPerBatch
    /\ fpc' = "batches"
    /\ UNCHANGED <<fileExtension, preprocess, pagesPerBatch, pdfPages, imageDataUrls,
                   preprocessed, calls, outcome>>
    /\ UNCHANGED notFile

\* core/ocr.ts:48: the provider rejects, and so does ocrFile
BatchRejects ==
    /\ fpc = "ocr"
    /\ outcome' = [kind |-> "error", value |-> <<"provider.ocr rejected">>]
    /\ fpc' = "failed"
    /\ UNCHANGED <<fileExtension, preprocess, pagesPerBatch, pdfPages, imageDataUrls,
                   preprocessed, results, batchStart, calls, answers>>
    /\ UNCHANGED notFile

\* core/ocr.ts:46, 51: the loop ends and the texts are joined
ReturnText ==
    /\ fpc = "batches"
    /\ batchStart >= Len(imageDataUrls)
    /\ outcome' = [kind |-> "text", value |-> joinBlank(results)]
    /\ fpc' = "returned"
    /\ UNCHANGED <<fileExtension, preprocess, pagesPerBatch, pdfPages, imageDataUrls,
                   preprocessed, results, batchStart, calls, answers>>
    /\ UNCHANGED notFile

FileNext ==
    \/ StartPdf
    \/ Rasterized
    \/ StartImage
    \/ StartUnsupported
    \/ PreprocessPage
    \/ PagesReady
    \/ OcrBatch
    \/ BatchResolves
    \/ BatchRejects
    \/ ReturnText

SpecFile == FileInit /\ [][FileNext]_vars

-----------------------------------------------------------------------------
\* The six extensions the program supports, in lower case.
NamedExtensions ==
    {<<"p", "d", "f">>, <<"p", "n", "g">>, <<"j", "p", "g">>, <<"j", "p", "e", "g">>,
     <<"w", "e", "b", "p">>, <<"g", "i", "f">>}

\* C17: for every extension that is none of pdf, png, jpg, jpeg, webp, gif
\* in any spelling, ocrFile rejects with "Unsupported file extension: ."
\* followed by the extension as given, and calls neither the rasterizer nor
\* the preprocessing nor the provider.
C17_UnsupportedRejected ==
    (fpc # "start" /\ toLowerCase(fileExtension) \notin NamedExtensions) =>
        /\ fpc = "rejected"
        /\ outcome = [kind |-> "error",
                      value |-> <<"Unsupported file extension: .">> \o fileExtension]
        /\ calls = <<>>

\* C17 happens: ocrFile was called with docx and has rejected.
C17_Witness ==
    /\ fpc = "rejected"
    /\ fileExtension = <<"d", "o", "c", "x">>
    /\ outcome.kind = "error"

\* C18: every spelling, in upper or lower case, of a supported extension
\* is accepted and handled as the lower-case spelling is: pdf goes to the
\* rasterizer, an image becomes one data URL of the MIME type of its
\* lower-case extension.
C18_CaseInsensitive ==
    (fpc # "start" /\ toLowerCase(fileExtension) \in NamedExtensions) =>
        /\ fpc # "rejected"
        /\ toLowerCase(fileExtension) = Pdf =>
               (Len(calls) > 0 /\ calls[1].op = "pdfToDataUrls")
        /\ (toLowerCase(fileExtension) # Pdf /\ fpc = "pages" /\ preprocessed = <<>>) =>
               imageDataUrls = <<DataUrl(extensionToMime(toLowerCase(fileExtension)), 1)>>

-----------------------------------------------------------------------------
(* The frontmatter of an output file: buildOutputContent writes it,        *)
(* extractFrontmatterHash and buildKnownHashes read it back.               *)

CR == "\r"

\* The line terminators of the m flag (the ones a text of the model holds).
LineTerminators == {NL, CR}

\* [a-f0-9]
HexChars == {"a", "b", "c", "d", "e", "f"} \cup Digits

\* {64}: the length of a SHA-256 hash in hexadecimal
HashLen == 64

\* The texts the expressions look for.
Dashes == <<"-", "-", "-">>

SourceHashKey == 
    <<"s", "o", "u", "r", "c", "e", "-", "h", "a", "s", "h", ":">>

TagsKey == <<"t", "a", "g", "s", ":">>

\* No match: null.
Null == <<>>

\* ^ under the m flag
LineStartAt(t, p) == p = 1 \/ (p > 1 /\ p <= Len(t) + 1 /\ t[p - 1] \in LineTerminators)

\* The first position >= p of t whose character is not in S; Len(t) + 1 if none.
SkipWhile(t, p, S) ==
    LET C == {q \in p..Len(t) : t[q] \notin S}
    IN  IF C = {} THEN Len(t) + 1 ELSE CHOOSE q \in C : \A r \in C : q <= r

\* /^---\r?\n/: the position after the opening line, 0 if the text has none
FrontmatterOpen(t) ==
    IF StartsWithAt(t, 1, Dashes \o <<NL>>) THEN 5
    ELSE IF StartsWithAt(t, 1, Dashes \o <<CR, NL>>) THEN 6
    ELSE 0

\* ([\s\S]*?)\r?\n---: the first position >= from where the closing line
\* begins with its line break, 0 if none
FrontmatterClose(t, from) ==
    LET C == {p \in from..Len(t) :
                 \/ StartsWithAt(t, p, <<NL>> \o Dashes)
                 \/ StartsWithAt(t, p, <<CR, NL>> \o Dashes)}
    IN  IF from = 0 \/ C = {} THEN 0 ELSE CHOOSE p \in C : \A r \in C : p <= r

\* /^source-hash:\s*"?([a-f0-9]{64})"?\s*$/m tried at the position p of b:
\* the position of the captured hash, 0 if there is no match at p
HashAt(b, p) ==
    IF ~(LineStartAt(b, p) /\ StartsWithAt(b, p, SourceHashKey)) THEN 0
    ELSE
        LET q == SkipWhile(b, p + Len(SourceHashKey), Whitespace)
            r == IF q <= Len(b) /\ b[q] = "\"" THEN q + 1 ELSE q
            s == r + HashLen
            u == IF s <= Len(b) /\ b[s] = "\"" THEN s + 1 ELSE s
            e == SkipWhile(b, u, Whitespace)
        IN  IF /\ s - 1 <= Len(b)
               /\ \A k \in r..(s - 1) : b[k] \in HexChars
               /\ (e = Len(b) + 1 \/ \E k \in u..(e - 1) : b[k] \in LineTerminators)
            THEN r
            ELSE 0

\* The positions of b where the hash line matches.
HashLines(b) == {p \in 1..Len(b) : HashAt(b, p) # 0}

\* The match that is furthest in the block.
MatchLast(b) ==
    LET p == CHOOSE p \in HashLines(b) : \A r \in HashLines(b) : r <= p
    IN  SubSeq(b, HashAt(b, p), HashAt(b, p) + HashLen - 1)

\* String.prototype.match without the g flag: the first match
MatchFirst(b) ==
    LET p == CHOOSE p \in HashLines(b) : \A r \in HashLines(b) : p <= r
    IN  SubSeq(b, HashAt(b, p), HashAt(b, p) + HashLen - 1)

\* extractFrontmatterHash(text)
extractFrontmatterHash(t) ==
    LET o == FrontmatterOpen(t)
        c == FrontmatterClose(t, o)
        fm == SubSeq(t, o, c - 1)
    IN  IF o = 0 \/ c = 0 THEN Null
        ELSE IF HashLines(fm) = {} THEN Null
        ELSE MatchFirst(fm)

\* s.split(c)
RECURSIVE SplitOn(_, _)
SplitOn(s, c) ==
    LET i == IndexOf(s, <<c>>, 1)
    IN  IF i = 0 THEN <<s>>
        ELSE <<SubSeq(s, 1, i - 1)>> \o SplitOn(SubSeq(s, i + 1, Len(s)), c)

\* .filter(Boolean) after .map(f): the non-empty entries
RECURSIVE FilterNonEmpty(_)
FilterNonEmpty(q) ==
    IF Len(q) = 0 THEN <<>>
    ELSE IF Len(q[1]) = 0 THEN FilterNonEmpty(Tail(q))
    ELSE <<q[1]>> \o FilterNonEmpty(Tail(q))

Blank == {" ", "\t"}

\* [ \t]+-[ \t]+\S[^\n]*\n? tried at the position p of y: the position after
\* the entry, 0 if there is no entry at p
TagEntryEnd(y, p) ==
    LET a == SkipWhile(y, p, Blank)
        b == SkipWhile(y, a + 1, Blank)
        n == IndexOf(y, <<NL>>, b + 1)
    IN  IF /\ a > p
           /\ a <= Len(y)
           /\ y[a] = "-"
           /\ b > a + 1
           /\ b <= Len(y)
           /\ y[b] \notin Whitespace
        THEN (IF n = 0 THEN Len(y) + 1 ELSE n + 1)
        ELSE 0

\* (?:...)*: the position after the last entry of the run that begins at p
RECURSIVE TagEntriesEnd(_, _)
TagEntriesEnd(y, p) ==
    IF TagEntryEnd(y, p) = 0 THEN p ELSE TagEntriesEnd(y, TagEntryEnd(y, p))

\* /^tags:\s*\n(...)/m tried at p: the position where the entries begin, 0
\* if there is no match at p
BlockTagsAt(y, p) ==
    IF ~(LineStartAt(y, p) /\ StartsWithAt(y, p, TagsKey)) THEN 0
    ELSE
        LET e == SkipWhile(y, p + Len(TagsKey), Whitespace)
            N == {q \in (p + Len(TagsKey))..(e - 1) : y[q] = NL}
        IN  IF N = {} THEN 0 ELSE (CHOOSE q \in N : \A r \in N : r <= q) + 1

\* line.replace(/^[ \t]+-[ \t]+/, "")
StripBullet(line) ==
    LET a == SkipWhile(line, 1, Blank)
        b == SkipWhile(line, a + 1, Blank)
    IN  IF a > 1 /\ a <= Len(line) /\ line[a] = "-" /\ b > a + 1
        THEN SubSeq(line, b, Len(line))
        ELSE line

\* /^tags:\s*\[([^\]]*)\]/m tried at p: the position after the bracket, 0
\* if there is no match at p
FlowTagsAt(y, p) ==
    IF ~(LineStartAt(y, p) /\ StartsWithAt(y, p, TagsKey)) THEN 0
    ELSE
        LET q == SkipWhile(y, p + Len(TagsKey), Whitespace)
        IN  IF q <= Len(y) /\ y[q] = "[" /\ IndexOf(y, <<"]">>, q + 1) # 0
            THEN q + 1
            ELSE 0

\* The tags of a YAML block, in block form first, in flow form otherwise.
TagsOf(y) ==
    LET B == {p \in 1..Len(y) : BlockTagsAt(y, p) # 0}
        F == {p \in 1..Len(y) : FlowTagsAt(y, p) # 0}
    IN  IF B # {}
        THEN LET s == BlockTagsAt(y, CHOOSE p \in B : \A r \in B : p <= r)
                 ls == split(SubSeq(y, s, TagEntriesEnd(y, s) - 1))
             IN  FilterNonEmpty([k \in 1..Len(ls) |-> trim(StripBullet(ls[k]))])
        ELSE IF F # {}
        THEN LET s == FlowTagsAt(y, CHOOSE p \in F : \A r \in F : p <= r)
                 ts == SplitOn(SubSeq(y, s, IndexOf(y, <<"]">>, s) - 1), ",")
             IN  FilterNonEmpty([k \in 1..Len(ts) |-> trim(ts[k])])
        ELSE <<>>

\* extractFrontmatterTags(text)
extractFrontmatterTags(t) ==
    LET o == FrontmatterOpen(t)
        c == FrontmatterClose(t, o)
        a == IF t[c] = CR THEN c + 5 ELSE c + 4
        a2 == IF a <= Len(t) /\ t[a] = CR THEN a + 1 ELSE a
        a3 == IF a2 <= Len(t) /\ t[a2] = NL THEN a2 + 1 ELSE a2
    IN  IF o = 0 \/ c = 0 THEN [tags |-> <<>>, body |-> t]
        ELSE [tags |-> TagsOf(SubSeq(t, o, c - 1)),
              body |-> trimStart(SubSeq(t, a3, Len(t)))]

\* `  - ${tag}` for every tag
TagLines(tags) == [k \in 1..Len(tags) |-> <<" ", " ", "-", " ">> \o tags[k]]

\* buildOutputContent(file, markdown, hash, model, provider), with the
\* time of the call as generated
buildOutputContent(name, md, h, model, provider, generated) ==
    LET parsed == extractFrontmatterTags(md)
        head == << Dashes,
                   <<"s", "o", "u", "r", "c", "e", ":", " ", "\"", "[", "[">> \o name \o <<"]", "]", "\"">>,
                   
    <<"g", "e", "n", "e", "r", "a", "t", "e", "d", ":", " ", "\"">> \o generated \o <<"\"">>,
                   <<"p", "r", "o", "v", "i", "d", "e", "r", ":", " ", "\"">> \o provider \o <<"\"">>,
                   <<"m", "o", "d", "e", "l", ":", " ", "\"">> \o model \o <<"\"">>,
                   SourceHashKey \o <<" ", "\"">> \o h \o <<"\"">> >>
        tagged == IF Len(parsed.tags) > 0
                  THEN head \o <<TagsKey>> \o TagLines(parsed.tags)
                  ELSE head
    IN  join(tagged \o <<Dashes, <<>> >>) \o parsed.body

-----------------------------------------------------------------------------
(* Output files are written and the vault is read back.                    *)

MaxMdLines == 4

MaxPlainLines == 2

MaxFiles == 2

\* A string of n times the character c.
Repeat(c, n) == [k \in 1..n |-> c]

\* The hashes of the source files.
Hashes == {Repeat("1", HashLen), Repeat("a", HashLen - 1) \o <<"0">>}

\* A hash no source file has.
ForeignHash == Repeat("f", HashLen)

\* The lines the provider's markdown is made of.
MarkdownLines ==
    {Dashes,
     TagsKey,
     <<" ", " ", "-", " ", "a">>,
     
    <<"t", "a", "g", "s", ":", " ", "[", "a", ",", " ", "b", "]">>,
     <<"t", "a", "g", "s", ":", " ", "[", "a">>,
     SourceHashKey \o <<" ", "\"">> \o ForeignHash \o <<"\"">>,
     SourceHashKey \o <<" ", "\"">> \o ForeignHash \o <<"\"", "]">>,
     <<"B", "o", "d", "y">>}

\* lines.join(sep)
RECURSIVE JoinWith(_, _)
JoinWith(lines, sep) ==
    IF Len(lines) = 0 THEN <<>>
    ELSE IF Len(lines) = 1 THEN lines[1]
    ELSE lines[1] \o sep \o JoinWith(Tail(lines), sep)

\* The texts of up to n lines, the first of them taken from First.
LinesFrom(First, n) ==
    UNION {{ls \in [1..m -> MarkdownLines] : ls[1] \in First} : m \in 1..n}

\* The markdown texts of the provider: texts that open a frontmatter block,
\* of up to MaxMdLines lines ended by LF or by CRLF, and texts of up to
\* MaxPlainLines lines that open with any line.
Markdowns ==
    {<<>>}
    \cup {JoinWith(ls, <<NL>>) : ls \in LinesFrom(MarkdownLines, MaxPlainLines)}
    \cup {JoinWith(ls, sep) :
             ls \in LinesFrom({Dashes}, MaxMdLines), sep \in {<<NL>>, <<CR, NL>>}}

\* The hash of the file that is processed next.
OtherHash(h) == CHOOSE g \in Hashes : g # h

\* The markdown of the files that are processed after the first.
LaterMarkdowns ==
    {<<"-", "-", "-", NL, "t", "a", "g", "s", ":", " ", "[", "a", ",", " ", "b", "]",
       NL, "-", "-", "-", NL, "B", "o", "d", "y">>}

FileName == <<"d", "o", "c", ".", "p", "d", "f">>

Provider == <<"a", "n", "t", "h", "r", "o", "p", "i", "c">>

Model == 
    <<"c", "l", "a", "u", "d", "e", "-", "s", "o", "n", "n", "e", "t", "-",
      "4", "-", "6">>

\* new Date().toISOString()
Generated == 
    <<"2", "0", "2", "6", "-", "0", "1", "-", "0", "1", "T", "0", "0", ":",
      "0", "0", ":", "0", "0", ".", "0", "0", "0", "Z">>

\* A note of the user, without frontmatter.
UserNote == [text |-> <<"B", "o", "d", "y">>, written |-> Null, markdown |-> <<>>]

FrontmatterInit ==
    /\ markdown \in Markdowns
    /\ hash \in Hashes
    /\ vaultFiles = <<UserNote>>
    /\ scanList = <<>>
    /\ hashes = {}
    /\ mpc = "ocr"
    /\ LatexIdle
    /\ ImageIdle
    /\ FileIdle
    /\ WatcherIdle
    /\ DebounceIdle

\* settings-tab.ts:392-411: the output of one source file is written
WriteOutput ==
    /\ mpc = "ocr"
    /\ Len(vaultFiles) <= MaxFiles
    /\ vaultFiles' = Append(vaultFiles,
           [text |-> buildOutputContent(FileName, markdown, hash, Model, Provider, Generated),
            written |-> hash,
            markdown |-> markdown])
    /\ markdown' \in LaterMarkdowns
    /\ hash' = OtherHash(hash)
    /\ UNCHANGED <<scanList, hashes, mpc>>
    /\ UNCHANGED notFrontmatter

\* settings-tab.ts:490-491: buildKnownHashes lists the markdown files
StartScan ==
    /\ mpc = "ocr"
    /\ scanList' = vaultFiles
    /\ hashes' = {}
    /\ mpc' = "scan"
    /\ UNCHANGED <<markdown, hash, vaultFiles>>
    /\ UNCHANGED notFrontmatter

\* settings-tab.ts:492-496: one file is read
ReadNext ==
    /\ mpc = "scan"
    /\ scanList # <<>>
    /\ LET h == extractFrontmatterHash(Head(scanList).text)
       IN  hashes' = IF h # Null THEN hashes \cup {h} ELSE hashes
    /\ scanList' = Tail(scanList)
    /\ UNCHANGED <<markdown, hash, vaultFiles, mpc>>
    /\ UNCHANGED notFrontmatter

\* settings-tab.ts:498: the set is returned
ScanDone ==
    /\ mpc = "scan"
    /\ scanList = <<>>
    /\ mpc' = "known"
    /\ UNCHANGED <<markdown, hash, vaultFiles, scanList, hashes>>
    /\ UNCHANGED notFrontmatter

FrontmatterNext ==
    \/ WriteOutput
    \/ StartScan
    \/ ReadNext
    \/ ScanDone

SpecFrontmatter == FrontmatterInit /\ [][FrontmatterNext]_vars

\* The files of the vault that the plugin wrote.
GeneratedFiles == {k \in 1..Len(vaultFiles) : vaultFiles[k].written # Null}

\* C19: the hash read back from every output file is the hash written into
\* it, whatever the markdown of the provider holds, and buildKnownHashes
\* returns exactly the hashes that were written.
C19_HashRoundTrip ==
    mpc = "known" =>
        /\ \A k \in GeneratedFiles :
               extractFrontmatterHash(vaultFiles[k].text) = vaultFiles[k].written
        /\ hashes = {vaultFiles[k].written : k \in GeneratedFiles}

\* C19 happens: the vault was read back and holds an output whose tags, taken
\* from the provider's markdown, bring a second source-hash line with them.
C19_Witness ==
    /\ mpc = "known"
    /\ \E k \in GeneratedFiles :
           /\ \E j \in 1..Len(extractFrontmatterTags(vaultFiles[k].markdown).tags) :
                  IndexOf(extractFrontmatterTags(vaultFiles[k].markdown).tags[j],
                          SourceHashKey, 1) # 0
           /\ vaultFiles[k].written \in hashes

-----------------------------------------------------------------------------
(* The plugin and its FileWatcher.  Every action is one turn of the event  *)
(* loop: the code between two awaits that wait for I/O or for a timer,     *)
(* with the microtasks it leaves behind (the calls of drain).              *)

MaxWatchers == 2

MaxTriggers == 2

PathA == "in/a.pdf"

PathB == "other/b.pdf"

\* The source files of the vault.
Paths == {PathA, PathB}

\* vault.getFiles(): the files in the order of the vault
VaultOrder == <<PathA, PathB>>

\* file.parent.path
Folder(p) == IF p = PathA THEN "in" ELSE "other"

\* file.extension
Extension(p) == Pdf

\* settings.watchFolders, as the user may have set it
WatchFolderSettings == {{"in"}, {"in", "other"}}

WatcherIds == 1..MaxWatchers

\* The two runs that build the index: the one of the start, the one of the
\* rescan command.
Slots == {"init", "rescan"}

\* The SHA-256 hashes of the contents a source file may have.  A source file
\* stands for the hash of its content, an output file for the hash that
\* extractFrontmatterHash reads from it, which is the hash it was written
\* with.
ContentHashes == {"h1", "h2"}

\* No output file; no hash.
NoFile == "none"

NoRun == [pc |-> "none", source |-> "none", hash |-> NoFile, startHash |-> NoFile,
          seen |-> FALSE]

NoWatcher == [processing |-> {}, queue |-> <<>>, activeCount |-> 0, ready |-> FALSE]

IdleIndexer == [pc |-> "idle", list |-> <<>>, idx |-> 0, built |-> {}, w |-> 0,
                files |-> <<>>, i |-> 0]

\* The part of the state the helpers below rewrite.
Current ==
    [known |-> knownHashes, initialized |-> initialized, watchers |-> watchers,
     runs |-> runs, indexers |-> indexers]

Commit(S) ==
    /\ knownHashes' = S.known
    /\ initialized' = S.initialized
    /\ watchers' = S.watchers
    /\ runs' = S.runs
    /\ indexers' = S.indexers

\* settings-tab.ts:365-376
shouldProcess(p) ==
    /\ Extension(p) \in SUPPORTED_EXTENSIONS
    /\ watchFolders # {}
    /\ Folder(p) \in watchFolders

\* settings-tab.ts:329-331: handleFile goes on to processFile
Accepts(S, w, p, force) ==
    /\ force \/ shouldProcess(p)
    /\ Extension(p) \in SUPPORTED_EXTENSIONS
    /\ p \notin S.watchers[w].processing

\* settings-tab.ts:333-335, 379: processing.add and the call of processFile,
\* up to the read of the file; succ holds the hashes that were OCR'd
StartRun(S, w, p, source, succ) ==
    [S EXCEPT !.watchers[w].processing = @ \cup {p},
              !.runs[w][p] = [pc |-> "read", source |-> source, hash |-> NoFile,
                              startHash |-> sources[p], seen |-> sources[p] \in succ]]

\* settings-tab.ts:328-342: handleFile called by a timer or a command
handleFile(S, w, p, source, succ) ==
    IF Accepts(S, w, p, source = "menu") THEN StartRun(S, w, p, source, succ) ELSE S

\* settings-tab.ts:310-321: the calls of drain that are pending on the
\* watcher w run to their ends
RECURSIVE drain(_, _, _)
drain(S, w, succ) ==
    LET W == S.watchers[w]
    IN  IF ~W.ready \/ W.activeCount > 0 \/ W.queue = <<>> THEN S
        ELSE LET f == Head(W.queue)
                 T == [S EXCEPT !.watchers[w].queue = Tail(@)]
             IN  IF Accepts(T, w, f, FALSE)
                 THEN StartRun([T EXCEPT !.watchers[w].activeCount = @ + 1],
                               w, f, "queue", succ)
                 ELSE drain(T, w, succ)

\* settings-tab.ts:299-308: enqueue, without the drain it leaves pending
enqueue(S, w, p) ==
    IF /\ Extension(p) \in SUPPORTED_EXTENSIONS
       /\ \A k \in 1..Len(S.watchers[w].queue) : S.watchers[w].queue[k] # p
       /\ p \notin S.watchers[w].processing
    THEN [S EXCEPT !.watchers[w].queue = Append(@, p)]
    ELSE S

\* settings-tab.ts:336-341, 317-320: handleFile ends, and so does the drain
\* that awaited it
FinishRun(S, w, p, succ) ==
    LET T == [S EXCEPT !.watchers[w].processing = @ \ {p},
                       !.runs[w][p] = NoRun]
    IN  IF S.runs[w][p].source = "queue"
        THEN drain([T EXCEPT !.watchers[w].activeCount = @ - 1], w, succ)
        ELSE T

\* settings-tab.ts:491: the markdown files of the vault
MarkdownFiles == LET Exists(p) == outputs[p] # NoFile IN SelectSeq(VaultOrder, Exists)

\* settings-tab.ts:350-352: the files a scan walks
ScanFiles == SelectSeq(VaultOrder, shouldProcess)

\* settings-tab.ts:354-361: the loop of scanWatchedFolders goes on from the
\* file i (counted from 1) until it awaits a read or a timer
RECURSIVE ScanAdvance(_, _, _)
ScanAdvance(S, s, i) ==
    LET X == S.indexers[s]
    IN  IF i > Len(X.files) THEN [S EXCEPT !.indexers[s].pc = "done", !.indexers[s].i = i]
        ELSE IF X.files[i] \notin S.watchers[X.w].processing
        THEN [S EXCEPT !.indexers[s].pc = "scanRead", !.indexers[s].i = i]
        ELSE IF (i - 1) % 10 = 0
        THEN [S EXCEPT !.indexers[s].pc = "scanYield", !.indexers[s].i = i + 1]
        ELSE ScanAdvance(S, s, i + 1)

\* main.ts:113-117 and 124-128: the index is built; the hashes are stored,
\* the watcher of the moment is made ready and its scan begins
Complete(S, s, succ) ==
    LET K == IF s = "init" THEN S.known \cup S.indexers[s].built ELSE S.indexers[s].built
        T == [S EXCEPT !.known = K,
                       !.initialized = (s = "init") \/ @,
                       !.watchers[watcher].ready = TRUE,
                       !.indexers[s].w = watcher,
                       !.indexers[s].files = ScanFiles]
    IN  drain(ScanAdvance(T, s, 1), watcher, succ)

-----------------------------------------------------------------------------
(* The turns of the event loop.                                            *)

WatcherInit ==
    /\ watchFolders \in WatchFolderSettings
    /\ sources \in [Paths -> ContentHashes]
    /\ outputs \in [Paths -> {NoFile} \cup ContentHashes]
    /\ \A p \in Paths : outputs[p] \in {NoFile, sources[p]}
    /\ knownHashes = {}
    /\ initialized = FALSE
    /\ watcher = 1
    /\ watchers = [w \in WatcherIds |-> NoWatcher]
    /\ runs = [w \in WatcherIds |-> [p \in Paths |-> NoRun]]
    /\ debounceTimers = {}
    /\ indexers = [s \in Slots |-> IdleIndexer]
    /\ succeeded = {}
    /\ triggers = 0
    /\ LatexIdle
    /\ ImageIdle
    /\ FileIdle
    /\ FrontmatterIdle
    /\ DebounceIdle

\* main.ts:113 and 123, settings-tab.ts:490-491: buildKnownHashes lists the
\* markdown files; with none to read the index is complete at once
BeginBuild(S, s) ==
    LET T == [S EXCEPT !.indexers[s] =
                 [IdleIndexer EXCEPT !.pc = "build", !.list = MarkdownFiles]]
    IN  IF MarkdownFiles = <<>> THEN Complete(T, s, succeeded) ELSE T

\* main.ts:101-103: the layout is ready, initializeAndScan begins
LayoutReady ==
    /\ indexers["init"].pc = "idle"
    /\ Commit(BeginBuild(Current, "init"))
    /\ UNCHANGED <<watchFolders, sources, outputs, watcher, debounceTimers, succeeded, triggers>>
    /\ UNCHANGED notWatcher

\* main.ts:92-96: the command "rescan watched folders"
RescanCommand ==
    /\ triggers < MaxTriggers
    /\ indexers["rescan"].pc \in {"idle", "done"}
    /\ triggers' = triggers + 1
    /\ Commit(BeginBuild(Current, "rescan"))
    /\ UNCHANGED <<watchFolders, sources, outputs, watcher, debounceTimers, succeeded>>
    /\ UNCHANGED notWatcher

\* settings-tab.ts:492-496: one markdown file is read; after the first the
\* loop waits for a timer, after the last of the others the index is complete
BuildRead(s) ==
    /\ indexers[s].pc = "build"
    /\ LET X == indexers[s]
           h == outputs[Head(X.list)]
           T == [Current EXCEPT
                    !.indexers[s].built = IF h # NoFile THEN @ \cup {h} ELSE @,
                    !.indexers[s].list = Tail(@),
                    !.indexers[s].idx = @ + 1]
       IN  Commit(IF X.idx % 50 = 0 THEN [T EXCEPT !.indexers[s].pc = "timer"]
                  ELSE IF Tail(X.list) = <<>> THEN Complete(T, s, succeeded)
                  ELSE T)
    /\ UNCHANGED <<watchFolders, sources, outputs, watcher, debounceTimers, succeeded, triggers>>
    /\ UNCHANGED notWatcher

\* settings-tab.ts:496: the timer of buildKnownHashes fires
BuildResume(s) ==
    /\ indexers[s].pc = "timer"
    /\ Commit(IF indexers[s].list = <<>> THEN Complete(Current, s, succeeded)
              ELSE [Current EXCEPT !.indexers[s].pc = "build"])
    /\ UNCHANGED <<watchFolders, sources, outputs, watcher, debounceTimers, succeeded, triggers>>
    /\ UNCHANGED notWatcher

\* settings-tab.ts:357-361: the file of a scan is read and hashed; it is
\* queued when its hash is not known
ScanRead(s) ==
    /\ indexers[s].pc = "scanRead"
    /\ LET X == indexers[s]
           p == X.files[X.i]
           T == IF sources[p] \notin knownHashes THEN enqueue(Current, X.w, p) ELSE Current
           U == IF (X.i - 1) % 10 = 0
                THEN [T EXCEPT !.indexers[s].pc = "scanYield", !.indexers[s].i = X.i + 1]
                ELSE ScanAdvance(T, s, X.i + 1)
       IN  Commit(drain(U, X.w, succeeded))
    /\ UNCHANGED <<watchFolders, sources, outputs, watcher, debounceTimers, succeeded, triggers>>
    /\ UNCHANGED notWatcher

\* settings-tab.ts:361: the timer of the scan fires
ScanResume(s) ==
    /\ indexers[s].pc = "scanYield"
    /\ Commit(ScanAdvance(Current, s, indexers[s].i))
    /\ UNCHANGED <<watchFolders, sources, outputs, watcher, debounceTimers, succeeded, triggers>>
    /\ UNCHANGED notWatcher

\* main.ts:35-46, 132-140: a create or modify event; the file gets the
\* content c and the timer of its path is set anew
VaultEvent(p, c) ==
    /\ triggers < MaxTriggers
    /\ triggers' = triggers + 1
    /\ sources' = [sources EXCEPT ![p] = c]
    /\ debounceTimers' = debounceTimers \cup {p}
    /\ UNCHANGED <<watchFolders, outputs, knownHashes, initialized, watcher, watchers, runs,
                   indexers, succeeded>>
    /\ UNCHANGED notWatcher

\* main.ts:135-138: the timer of a path fires
TimerFires(p) ==
    /\ p \in debounceTimers
    /\ debounceTimers' = debounceTimers \ {p}
    /\ Commit(handleFile(Current, watcher, p, "event", succeeded))
    /\ UNCHANGED <<watchFolders, sources, outputs, watcher, succeeded, triggers>>
    /\ UNCHANGED notWatcher

\* main.ts:52-76: the file-menu item and "ocr active file"
ForceCommand(p) ==
    /\ triggers < MaxTriggers
    /\ triggers' = triggers + 1
    /\ Commit(handleFile(Current, watcher, p, "menu", succeeded))
    /\ UNCHANGED <<watchFolders, sources, outputs, watcher, debounceTimers, succeeded>>
    /\ UNCHANGED notWatcher

\* main.ts:79-89: "pick a file"
PickCommand(p) ==
    /\ triggers < MaxTriggers
    /\ triggers' = triggers + 1
    /\ Commit(handleFile(Current, watcher, p, "pick", succeeded))
    /\ UNCHANGED <<watchFolders, sources, outputs, watcher, debounceTimers, succeeded>>
    /\ UNCHANGED notWatcher

\* main.ts:151-158, 187-190: the settings are saved and the watcher is
\* replaced by a new one that shares knownHashes
SaveSettings ==
    /\ triggers < MaxTriggers
    /\ watcher < MaxWatchers
    /\ triggers' = triggers + 1
    /\ watcher' = watcher + 1
    /\ watchers' = [watchers EXCEPT ![watcher + 1] = [NoWatcher EXCEPT !.ready = initialized]]
    /\ UNCHANGED <<watchFolders, sources, outputs, knownHashes, initialized, runs,
                   debounceTimers, indexers, succeeded>>
    /\ UNCHANGED notWatcher

\* settings-tab.ts:379-382: the file was read and hashed; its hash is known
\* and the run is not forced
SkipKnown(w, p) ==
    /\ runs[w][p].pc = "read"
    /\ runs[w][p].source # "menu"
    /\ sources[p] \in knownHashes
    /\ Commit(FinishRun(Current, w, p, succeeded))
    /\ UNCHANGED <<watchFolders, sources, outputs, watcher, debounceTimers, succeeded, triggers>>
    /\ UNCHANGED notWatcher

\* settings-tab.ts:379-395: the file was read and hashed; ocrFile is called
CallOcr(w, p) ==
    /\ runs[w][p].pc = "read"
    /\ runs[w][p].source = "menu" \/ sources[p] \notin knownHashes
    /\ runs' = [runs EXCEPT ![w][p].pc = "ocr", ![w][p].hash = sources[p]]
    /\ UNCHANGED <<watchFolders, sources, outputs, knownHashes, initialized, watcher, watchers,
                   debounceTimers, indexers, succeeded, triggers>>
    /\ UNCHANGED notWatcher

\* settings-tab.ts:387-405: ocrFile resolves, the content is built
OcrResolves(w, p) ==
    /\ runs[w][p].pc = "ocr"
    /\ runs' = [runs EXCEPT ![w][p].pc = "write"]
    /\ UNCHANGED <<watchFolders, sources, outputs, knownHashes, initialized, watcher, watchers,
                   debounceTimers, indexers, succeeded, triggers>>
    /\ UNCHANGED notWatcher

\* settings-tab.ts:336-341: ocrFile rejects, handleFile reports the error
OcrRejects(w, p) ==
    /\ runs[w][p].pc = "ocr"
    /\ Commit(FinishRun(Current, w, p, succeeded))
    /\ UNCHANGED <<watchFolders, sources, outputs, watcher, debounceTimers, succeeded, triggers>>
    /\ UNCHANGED notWatcher

\* settings-tab.ts:406-411: the output file is written
OutputWritten(w, p) ==
    /\ runs[w][p].pc = "write"
    /\ outputs' = [outputs EXCEPT ![p] = runs[w][p].hash]
    /\ runs' = [runs EXCEPT ![w][p].pc = "written"]
    /\ UNCHANGED <<watchFolders, sources, knownHashes, initialized, watcher, watchers,
                   debounceTimers, indexers, succeeded, triggers>>
    /\ UNCHANGED notWatcher

\* settings-tab.ts:413-415: the hash is stored, processFile returns
HashStored(w, p) ==
    /\ runs[w][p].pc = "written"
    /\ succeeded' = succeeded \cup {runs[w][p].hash}
    /\ Commit(FinishRun([Current EXCEPT !.known = @ \cup {runs[w][p].hash}], w, p,
                        succeeded \cup {runs[w][p].hash}))
    /\ UNCHANGED <<watchFolders, sources, outputs, watcher, debounceTimers, triggers>>
    /\ UNCHANGED notWatcher

WatcherNext ==
    \/ LayoutReady
    \/ RescanCommand
    \/ \E s \in Slots : BuildRead(s)
    \/ \E s \in Slots : BuildResume(s)
    \/ \E s \in Slots : ScanRead(s)
    \/ \E s \in Slots : ScanResume(s)
    \/ \E p \in Paths, c \in ContentHashes : VaultEvent(p, c)
    \/ \E p \in Paths : TimerFires(p)
    \/ \E p \in Paths : ForceCommand(p)
    \/ \E p \in Paths : PickCommand(p)
    \/ SaveSettings
    \/ \E w \in WatcherIds, p \in Paths : SkipKnown(w, p)
    \/ \E w \in WatcherIds, p \in Paths : CallOcr(w, p)
    \/ \E w \in WatcherIds, p \in Paths : OcrResolves(w, p)
    \/ \E w \in WatcherIds, p \in Paths : OcrRejects(w, p)
    \/ \E w \in WatcherIds, p \in Paths : OutputWritten(w, p)
    \/ \E w \in WatcherIds, p \in Paths : HashStored(w, p)

SpecWatcher == WatcherInit /\ [][WatcherNext]_vars

-----------------------------------------------------------------------------
\* C20: an automatic run (from a vault event or from the queue of a scan)
\* that begins when the content of its file has already been OCR'd with
\* success, and that finds this content unchanged, neither calls the
\* provider nor writes an output.
C20_NoRepeatedOcr ==
    \A w \in WatcherIds, p \in Paths :
        (/\ runs[w][p].source \in {"event", "queue"}
         /\ runs[w][p].seen
         /\ runs[w][p].hash = runs[w][p].startHash) =>
            runs[w][p].pc \notin {"ocr", "write", "written"}

-----------------------------------------------------------------------------
\* The runs that are in progress for the path p, one per watcher at most.
RunsOf(p) == {w \in WatcherIds : runs[w][p].pc # "none"}

\* C21: at no time are two OCR runs in progress for the same file path,
\* whatever vault events, commands, scans and settings saves interleave.
C21_OneRunPerPath == \A p \in Paths : Cardinality(RunsOf(p)) <= 1

\* C22: no automatic run is in progress, and so no known-hash check of an
\* automatic run is made, on a watcher whose markReady was not called yet
\* after knownHashes was filled from the vault.
C22_HeldUntilReady ==
    \A w \in WatcherIds, p \in Paths :
        runs[w][p].source \in {"event", "queue"} => watchers[w].ready

\* settings.ts:47: DEFAULT_SETTINGS.maxConcurrent
maxConcurrent == 1

\* The runs whose file is with the provider.
BeingOcrd == {q \in WatcherIds \X Paths : runs[q[1]][q[2]].pc = "ocr"}

\* C23: the number of files that are being OCR'd at the same moment never
\* exceeds settings.maxConcurrent.
C23_AtMostMaxConcurrent == Cardinality(BeingOcrd) <= maxConcurrent

\* C24: every manual command (file menu, active file, pick a file) on a
\* file that is not being processed starts a run for it, wherever the file
\* lies, and no run of a manual command ends at the known-hash check.
C24_ManualAlwaysRuns ==
    [][\A p \in Paths :
          /\ ((ForceCommand(p) \/ PickCommand(p)) /\ p \notin watchers[watcher].processing)
                 => runs'[watcher][p].pc = "read"
          /\ \A w \in WatcherIds :
                 SkipKnown(w, p) => runs[w][p].source \notin {"menu", "pick"}]_vars

-----------------------------------------------------------------------------
(* debounceHandle of main.ts in time.  The clock counts units of 100 ms; a *)
(* timeout runs when it is due, before the clock goes on.                  *)

MaxClock == 8

MaxEvents == 4

\* main.ts:139: the delay of 300 ms, in units of the clock
DebounceDelay == 3

\* A clearTimeout that leaves the timeout to run.
clearTimeoutKeeps(scheduled, id) == scheduled

\* clearTimeout(id): the timeout id is taken from the scheduled ones
clearTimeout(scheduled, id) == {t \in scheduled : t.id # id}

DebounceInit ==
    /\ clock = 0
    /\ timeouts = {}
    /\ timerOf = [p \in Paths |-> {}]
    /\ nextTimer = 1
    /\ lastEventAt = [p \in Paths |-> 0]
    /\ bursts = [p \in Paths |-> 0]
    /\ handleCalls = <<>>
    /\ LatexIdle
    /\ ImageIdle
    /\ FileIdle
    /\ FrontmatterIdle
    /\ WatcherIdle

\* main.ts:35-46, 132-140: a create or modify event of the path p reaches
\* debounceHandle
DebounceEvent(p) ==
    /\ nextTimer <= MaxEvents
    /\ LET existing == timerOf[p]
           kept == IF existing # {}
                   THEN clearTimeout(timeouts, CHOOSE id \in existing : TRUE)
                   ELSE timeouts
       IN  timeouts' = kept \cup {[id |-> nextTimer, path |-> p, due |-> clock + DebounceDelay]}
    /\ timerOf' = [timerOf EXCEPT ![p] = {nextTimer}]
    /\ nextTimer' = nextTimer + 1
    /\ bursts' = [bursts EXCEPT ![p] =
                     IF bursts[p] = 0 \/ clock - lastEventAt[p] >= DebounceDelay
                     THEN @ + 1 ELSE @]
    /\ lastEventAt' = [lastEventAt EXCEPT ![p] = clock]
    /\ UNCHANGED <<clock, handleCalls>>
    /\ UNCHANGED notDebounce

\* main.ts:135-138: a timeout that is due runs; handleFile is called
TimeoutRuns(id) ==
    /\ \E t \in timeouts :
           /\ t.id = id
           /\ t.due <= clock
           /\ timeouts' = timeouts \ {t}
           /\ timerOf' = [timerOf EXCEPT ![t.path] = {}]
           /\ handleCalls' = Append(handleCalls,
                  [path |-> t.path, at |-> clock, last |-> lastEventAt[t.path]])
    /\ UNCHANGED <<clock, nextTimer, lastEventAt, bursts>>
    /\ UNCHANGED notDebounce

\* 100 ms pass; no timeout is due
Tick ==
    /\ clock < MaxClock
    /\ \A t \in timeouts : t.due > clock
    /\ clock' = clock + 1
    /\ UNCHANGED <<timeouts, timerOf, nextTimer, lastEventAt, bursts, handleCalls>>
    /\ UNCHANGED notDebounce

DebounceNext ==
    \/ \E p \in Paths : DebounceEvent(p)
    \/ \E id \in 1..MaxEvents : TimeoutRuns(id)
    \/ Tick

SpecDebounce == DebounceInit /\ [][DebounceNext]_vars

\* The calls of handleFile for the path p.
CallsOf(p) == {k \in 1..Len(handleCalls) : handleCalls[k].path = p}

\* C25: per path at most one timer is pending; every call of handleFile
\* comes 300 ms after the last event of its path, so none falls inside a
\* burst; a path is handled at most once per burst (a burst ends when 300 ms
\* pass without an event), and exactly once for its last event as soon as
\* 300 ms have passed since; events of other paths change nothing of this.
C25_DebouncedPerPath ==
    /\ \A p \in Paths : Cardinality({t \in timeouts : t.path = p}) <= 1
    /\ \A k \in 1..Len(handleCalls) :
           handleCalls[k].at = handleCalls[k].last + DebounceDelay
    /\ \A p \in Paths :
           /\ Cardinality(CallsOf(p)) <= bursts[p]
           /\ Cardinality({k \in CallsOf(p) : handleCalls[k].last = lastEventAt[p]}) <= 1
           /\ (bursts[p] > 0 /\ clock > lastEventAt[p] + DebounceDelay) =>
                  Cardinality({k \in CallsOf(p) : handleCalls[k].last = lastEventAt[p]}) = 1

\* C25 happens: a burst of three events on one path, 100 ms and 200 ms apart,
\* with an event of the other path in between, was handled once, and the
\* other path was handled too.
C25_Witness ==
    /\ Len(handleCalls) = 2
    /\ lastEventAt[PathA] = 3
    /\ lastEventAt[PathB] = 2
    /\ bursts[PathA] = 1
    /\ nextTimer = 5
    /\ clock > 6
    /\ \E k \in CallsOf(PathA) : handleCalls[k].at = 6

-----------------------------------------------------------------------------
\* ocrFile with the scheduler of the runtime: a step that can be taken is taken.
SpecFileFair == FileInit /\ [][FileNext]_vars /\ WF_vars(FileNext)

\* The calls of provider.ocr, in their order.
OcrCalls == SelectSeq(calls, LAMBDA c : c.op = "provider.ocr")

\* ceil(n / b)
CeilDiv(n, b) == (n + b - 1) \div b

\* The pages from..to (counted from 0, to included) of the page images.
PagesFromTo(from, to) == [k \in 1..(to - from + 1) |-> imageDataUrls[from + k]]

\* The text that the answers of the provider give: each normalised, a blank
\* line between two of them.
RECURSIVE BlankLineJoined(_)
BlankLineJoined(q) ==
    IF q = <<>> THEN <<>>
    ELSE IF Len(q) = 1 THEN ConvertDisplay(ConvertInline(q[1]))
    ELSE ConvertDisplay(ConvertInline(q[1])) \o <<"\n", "\n">> \o BlankLineJoined(Tail(q))

\* What holds of the batches in every state.
BatchesInOrder ==
    LET n == Len(imageDataUrls)
        b == pagesPerBatch
    IN  /\ fpc \in {"batches", "ocr", "returned", "failed"} =>
               /\ Len(OcrCalls) - Len(answers) =
                      (IF fpc \in {"ocr", "failed"} THEN 1 ELSE 0)
               /\ Len(OcrCalls) <= CeilDiv(n, b)
               /\ \A k \in 1..Len(OcrCalls) :
                      OcrCalls[k].urls =
                          PagesFromTo((k - 1) * b,
                                      (IF k * b < n THEN k * b ELSE n) - 1)
        /\ fpc = "returned" =>
               /\ Len(OcrCalls) = CeilDiv(n, b)
               /\ outcome = [kind |-> "text", value |-> BlankLineJoined(answers)]

\* C26: for n page images and b = pagesPerBatch >= 1 pages a batch,
\* provider.ocr is called ceil(n/b) times, never while an earlier call is
\* pending, the k-th call with the pages (k-1)*b .. min(n, k*b)-1 in their
\* order; the result is the answers, each normalised, joined by a blank
\* line; and the loop of the batches ends, with the text or with the
\* rejection of the provider.
C26_BatchesInOrder ==
    /\ []BatchesInOrder
    /\ (fpc = "batches") ~> (fpc \in {"returned", "failed"})

\* C26 happens: four pages in batches of three were sent in two calls, the
\* second with the last page alone, and the text was returned.
C26_Witness ==
    /\ fpc = "returned"
    /\ Len(imageDataUrls) = 4
    /\ pagesPerBatch = 3
    /\ Len(OcrCalls) = 2
    /\ Len(OcrCalls[2].urls) = 1
    /\ answers[1] # answers[2]

=============================================================================
